---- MODULE Spec2Model ----
(***************************************************************************)
(* Model of the SMC market-structure engine: the thresholded               *)
(* MarketStructureAnalyzer (src/server/routes.ts), the BatchSMCAnalyzer    *)
(* (src/server/market-structure-analyzer.ts), the NotificationService     *)
(* (src/unnamed/part_014) and the signal store MemStorage                  *)
(* (src/server/storage.ts, src/server/stock-service.ts).                   *)
(*                                                                         *)
(* Prices are integers (one unit = 0.01).  Every floating-point comparison *)
(* of the source is modelled by the cross-multiplied integer comparison,   *)
(* so a percentage threshold p (in per-mille) on a level x reads           *)
(* 1000 * y > (1000 + p) * x.  Candle timestamps are minutes; the candle   *)
(* at 0-based index i of a series has timestamp i * barMinutes.            *)
(***************************************************************************)
EXTENDS Integers, Sequences, FiniteSets, TLC

VARIABLES
    lookbackWindow,   \* MarketStructureAnalyzer.lookbackWindow (constructor argument)
    barMinutes,       \* bar interval of the analysed series, minutes
    candles,          \* the candle array handed to the analyzer
    pc,               \* "ready" before the call, "done" after it
    swingPoints,      \* MarketStructureAnalyzer.swingPoints
    bosChochEvents,   \* MarketStructureAnalyzer.bosChochEvents
    fairValueGaps,    \* MarketStructureAnalyzer.fairValueGaps
    prevSwingPoints,  \* swing points found by the preceding call
    calls,            \* number of analyzeMarketStructure calls completed
    snapshot,         \* value returned by the latest call (<<>> before the first)
    prevSnapshot,     \* value returned by the call before it
    createdFVGs,      \* the FVGs the latest call pushed, before pruning
    calledAt          \* wall clock read by the latest call, minutes

analyzerVars == <<lookbackWindow, barMinutes, candles, pc, swingPoints,
                  bosChochEvents, fairValueGaps, prevSwingPoints, calls,
                  snapshot, prevSnapshot, createdFVGs, calledAt>>

VARIABLES
    batchSymbols,     \* analyzeBatch: the symbols argument
    batchPos,         \* analyzeBatch: number of symbols the loop has handled
    batchResults,     \* analyzeBatch: the results array
    batchPc,          \* "idle", "running" (in the loop), "returned", or
                      \* "stock" after a single analyzeStock
    batchTrace,       \* what analyzeStock met for each symbol handled so far
    stockResult       \* analyzeStock: the value returned (<<>> is null)

batchVars == <<batchSymbols, batchPos, batchResults, batchPc, batchTrace,
               stockResult>>

VARIABLES
    notifications,    \* NotificationService.notifications (newest first)
    clock,            \* wall clock, seconds
    created,          \* number of notifications created so far (their ids)
    lastCall,         \* arguments and new notifications of the latest checkForAlerts
    recentCall        \* limit and result of the latest getRecentNotifications,
                      \* and the number of notifications created before it

notifyVars == <<notifications, clock, created, lastCall, recentCall>>

VARIABLES
    clients,          \* NotificationService.clients: clientId -> <<>> (no entry)
                      \* or <<[ws, notifications]>>
    sockets,          \* each WebSocket: "new", "open" or "closed", and the
                      \* clientId its message and close handlers closed over
    own,              \* each WebSocket: the default settings merged with the
                      \* updateSettings messages that socket sent
    received,         \* each WebSocket: ids of the notifications sent to it
    lastBroadcast     \* the latest createNotification: id, type, and the
                      \* open sockets and their own settings at that moment

clientVars == <<clients, sockets, own, received, lastBroadcast>>

VARIABLES
    stocks,           \* MemStorage.stocks in insertion order (id = position)
    currentStockId,   \* MemStorage.currentStockId
    scans,            \* number of refreshWithRealData calls completed so far
    storeNow,         \* wall clock of the store, seconds
    lastUpdate,       \* StockDataService.lastUpdate, seconds (0 is new Date(0))
    inFlight,         \* refreshWithRealData calls suspended at the provider fetch
    lastRequest,      \* the latest updateStockPrices call: whether it fetched
    lastRefresh,      \* outcome of the latest completed refresh, and the scan
                      \* the latest successful one loaded
    lastToggle        \* the latest toggleFavorite call: arguments and the flag
                      \* of the stock before it

storeVars == <<stocks, currentStockId, scans, storeNow, lastUpdate, inFlight,
               lastRequest, lastRefresh, lastToggle>>

VARIABLES
    chochSince        \* whether some timeframe emitted a CHOCH between the two
                      \* snapshots handed to the latest checkForAlerts

scanVars == <<chochSince>>

\* the useWebSocket hook of one mounted component
VARIABLES
    hookMounted,      \* the effect's cleanup has not run
    isConnected,      \* the hook's isConnected state
    webSockets,       \* the WebSocket objects the hook created, in order; the
                      \* last one is wsRef.current
    reconnectTimers,  \* pending setTimeout(connectWebSocket, 3000) calls
    hookNow,          \* the browser's clock, seconds
    openedUnmounted   \* number of WebSocket objects created after the cleanup

hookVars == <<hookMounted, isConnected, webSockets, reconnectTimers, hookNow, openedUnmounted>>

vars == <<analyzerVars, batchVars, notifyVars, clientVars, storeVars, scanVars, hookVars>>

(***************************************************************************)
(* Program constants of the analyzer (per-mille where the source has a     *)
(* percentage with one decimal).                                           *)
(***************************************************************************)
bosThreshold == 3             \* 0.3 %
chochThreshold == 5           \* 0.5 %
minStructureDistance == 10    \* 1.0 %
structureLockBars == 5
swingMargin == 1              \* 0.1 %
atrPeriod == 14
avgPriceWindow == 20
minLookback == 5
maxLookback == 30
majorBreak == 10              \* 1.0 %

Max(a, b) == IF a >= b THEN a ELSE b
Min(a, b) == IF a <= b THEN a ELSE b
Abs(a) == IF a >= 0 THEN a ELSE 0 - a

\* candles[i] of the source (0-based)
At(cs, i) == cs[i + 1]

(***************************************************************************)
(* calculateATR: the true-range sum over candles 1..period (the source     *)
(* divides it by period; the quotient is kept as numerator here).          *)
(***************************************************************************)
TrueRange(cur, prev) ==
    Max(cur.high - cur.low,
        Max(Abs(cur.high - prev.close), Abs(cur.low - prev.close)))

RECURSIVE TrSum(_, _, _)
TrSum(cs, i, last) ==
    IF i > last THEN 0
    ELSE TrueRange(At(cs, i), At(cs, i - 1)) + TrSum(cs, i + 1, last)

\* atr * period
calculateATR(cs, period) ==
    IF Len(cs) < period + 1 THEN 0
    ELSE TrSum(cs, 1, Min(period + 1, Len(cs)) - 1)

\* sum of high + low + close over candles.slice(-20)  ( = 3 * 20 * avgPrice )
RECURSIVE TypicalSum(_, _)
TypicalSum(cs, i) ==
    IF i > Len(cs) THEN 0
    ELSE cs[i].high + cs[i].low + cs[i].close + TypicalSum(cs, i + 1)

AvgPrice60(cs) == TypicalSum(cs, Max(1, Len(cs) - avgPriceWindow + 1))

(***************************************************************************)
(* The adaptive lookback of detectSwingPoints.                             *)
(*   volatilityRatio = (atr / avgPrice) * 100                              *)
(*                   = trSum * 6000 / (period * typicalSum)                *)
(***************************************************************************)
VolatilityBelow1(cs) ==
    calculateATR(cs, atrPeriod) * 3 * avgPriceWindow * 100 < atrPeriod * AvgPrice60(cs)

VolatilityAbove3(cs) ==
    calculateATR(cs, atrPeriod) * 3 * avgPriceWindow * 100 > 3 * atrPeriod * AvgPrice60(cs)

DynamicLookback(cs, lw) ==
    Max(minLookback,
        Min(maxLookback,
            IF VolatilityBelow1(cs) THEN lw \div 2
            ELSE IF VolatilityAbove3(cs) THEN (lw * 3) \div 2
            ELSE lw))

\* candles[j].high >= currentHigh * (1 - 0.1 / 100) for no j # i of the window
IsSwingHigh(cs, i, lb) ==
    \A j \in (i - lb)..(i + lb) :
        j # i => ~(At(cs, j).high * 1000 >= At(cs, i).high * (1000 - swingMargin))

\* candles[j].low <= currentLow * (1 + 0.1 / 100) for no j # i of the window
IsSwingLow(cs, i, lb) ==
    \A j \in (i - lb)..(i + lb) :
        j # i => ~(At(cs, j).low * 1000 <= At(cs, i).low * (1000 + swingMargin))

SwingPoint(cs, i, kind) ==
    [index |-> i,
     price |-> IF kind = "high" THEN At(cs, i).high ELSE At(cs, i).low,
     type |-> kind,
     timestamp |-> At(cs, i).timestamp]

\* the highs pass, the lows pass and the (stable) sort by index, merged
RECURSIVE SwingScan(_, _, _)
SwingScan(cs, i, lb) ==
    IF i >= Len(cs) - lb THEN <<>>
    ELSE (IF IsSwingHigh(cs, i, lb) THEN <<SwingPoint(cs, i, "high")>> ELSE <<>>)
         \o (IF IsSwingLow(cs, i, lb) THEN <<SwingPoint(cs, i, "low")>> ELSE <<>>)
         \o SwingScan(cs, i + 1, lb)

detectSwingPoints(cs, lw) ==
    LET lookback == DynamicLookback(cs, lw)
    IN SwingScan(cs, lookback, lookback)

(***************************************************************************)
(* detectBOSCHOCH.  The loop state is the record                           *)
(*   [events, lastBullishBOS, lastBearishBOS, lastStructureEvent,          *)
(*    structureLockUntil];  NoEvent stands for null.                       *)
(***************************************************************************)
NoEvent ==
    [type |-> "none", direction |-> "none", price |-> 0, timestamp |-> -1,
     brokenLevel |-> 0, significance |-> "none"]

\* Math.abs((breakPrice - brokenLevel) / brokenLevel) * 100 >= 1.0
calculateSignificance(brokenLevel, breakPrice) ==
    IF Abs(breakPrice - brokenLevel) * 1000 >= majorBreak * brokenLevel
    THEN "major" ELSE "minor"

validateStructureDistance(brokenLevel, currentPrice, lastOppositeEvent) ==
    IF lastOppositeEvent = NoEvent THEN TRUE
    ELSE Abs(currentPrice - lastOppositeEvent.price) * 1000
            >= brokenLevel * minStructureDistance

\* close > level * (1 + pct / 100)
ClosesAboveNoThreshold(close, level, perMille) == close > level

ClosesAboveInclusive(close, level, perMille) ==
    close * 1000 >= level * (1000 + perMille)

ClosesAbove(close, level, perMille) ==
    close * 1000 > level * (1000 + perMille)

\* close < level * (1 - pct / 100)
ClosesBelow(close, level, perMille) ==
    close * 1000 < level * (1000 - perMille)

\* swingHighs.filter(sh => sh.index < i) / swingLows.filter(sl => sl.index < i)
RelevantSwings(sw, kind, i) ==
    SelectSeq(sw, LAMBDA sp : sp.type = kind /\ sp.index < i)

LastOf(s) == s[Len(s)]

StructureEvent(kind, dir, candle, level) ==
    [type |-> kind, direction |-> dir, price |-> candle.close,
     timestamp |-> candle.timestamp, brokenLevel |-> level,
     significance |-> calculateSignificance(level, candle.close)]

InitialLoopState ==
    [events |-> <<>>, lastBullishBOS |-> NoEvent, lastBearishBOS |-> NoEvent,
     lastStructureEvent |-> NoEvent, structureLockUntil |-> 0]

\* if (i < structureLockUntil && lastStructureEvent) continue;
InStructureLockNever(i, st) == FALSE

InStructureLock(i, st) ==
    i < st.structureLockUntil /\ st.lastStructureEvent # NoEvent

BullishBOS(cs, sw, i, st) ==
    LET highs == RelevantSwings(sw, "high", i)
        c == At(cs, i)
    IN IF /\ Len(highs) > 0
          /\ ClosesAbove(c.close, LastOf(highs).price, bosThreshold)
          /\ validateStructureDistance(LastOf(highs).price, c.close, st.lastBearishBOS)
       THEN LET ev == StructureEvent("BOS", "bullish", c, LastOf(highs).price)
            IN [st EXCEPT !.events = Append(@, ev),
                          !.lastBullishBOS = ev,
                          !.lastStructureEvent = ev,
                          !.structureLockUntil = i + structureLockBars]
       ELSE st

BearishBOS(cs, sw, i, st) ==
    LET lows == RelevantSwings(sw, "low", i)
        c == At(cs, i)
    IN IF /\ Len(lows) > 0
          /\ ClosesBelow(c.close, LastOf(lows).price, bosThreshold)
          /\ validateStructureDistance(LastOf(lows).price, c.close, st.lastBullishBOS)
       THEN LET ev == StructureEvent("BOS", "bearish", c, LastOf(lows).price)
            IN [st EXCEPT !.events = Append(@, ev),
                          !.lastBearishBOS = ev,
                          !.lastStructureEvent = ev,
                          !.structureLockUntil = i + structureLockBars]
       ELSE st

BearishCHOCHKeepsBOS(cs, sw, i, st) ==
    LET lows == RelevantSwings(sw, "low", i)
        c == At(cs, i)
    IN IF /\ st.lastBullishBOS # NoEvent
          /\ Len(lows) > 0
          /\ ClosesBelow(c.close, LastOf(lows).price, chochThreshold)
          /\ c.timestamp > st.lastBullishBOS.timestamp
          /\ validateStructureDistance(LastOf(lows).price, c.close, st.lastBullishBOS)
       THEN LET ev == StructureEvent("CHOCH", "bearish", c, LastOf(lows).price)
            IN [st EXCEPT !.events = Append(@, ev),
                          !.lastStructureEvent = ev,
                          !.structureLockUntil = i + structureLockBars]
       ELSE st

BearishCHOCH(cs, sw, i, st) ==
    LET lows == RelevantSwings(sw, "low", i)
        c == At(cs, i)
    IN IF /\ st.lastBullishBOS # NoEvent
          /\ Len(lows) > 0
          /\ ClosesBelow(c.close, LastOf(lows).price, chochThreshold)
          /\ c.timestamp > st.lastBullishBOS.timestamp
          /\ validateStructureDistance(LastOf(lows).price, c.close, st.lastBullishBOS)
       THEN LET ev == StructureEvent("CHOCH", "bearish", c, LastOf(lows).price)
            IN [st EXCEPT !.events = Append(@, ev),
                          !.lastBullishBOS = NoEvent,
                          !.lastStructureEvent = ev,
                          !.structureLockUntil = i + structureLockBars]
       ELSE st

BullishCHOCH(cs, sw, i, st) ==
    LET highs == RelevantSwings(sw, "high", i)
        c == At(cs, i)
    IN IF /\ st.lastBearishBOS # NoEvent
          /\ Len(highs) > 0
          /\ ClosesAbove(c.close, LastOf(highs).price, chochThreshold)
          /\ c.timestamp > st.lastBearishBOS.timestamp
          /\ validateStructureDistance(LastOf(highs).price, c.close, st.lastBearishBOS)
       THEN LET ev == StructureEvent("CHOCH", "bullish", c, LastOf(highs).price)
            IN [st EXCEPT !.events = Append(@, ev),
                          !.lastBearishBOS = NoEvent,
                          !.lastStructureEvent = ev,
                          !.structureLockUntil = i + structureLockBars]
       ELSE st

\* one iteration of the loop body for an examined candle
ExamineCandle(cs, sw, i, st) ==
    BullishCHOCH(cs, sw, i,
        BearishCHOCH(cs, sw, i,
            BearishBOS(cs, sw, i,
                BullishBOS(cs, sw, i, st))))

RECURSIVE StructureLoop(_, _, _, _)
StructureLoop(cs, sw, i, st) ==
    IF i >= Len(cs) THEN st
    ELSE IF InStructureLock(i, st) THEN StructureLoop(cs, sw, i + 1, st)
    ELSE StructureLoop(cs, sw, i + 1, ExamineCandle(cs, sw, i, st))

detectBOSCHOCH(cs, sw, lw) ==
    StructureLoop(cs, sw, Max(lw, 1), InitialLoopState).events

(***************************************************************************)
(* detectFairValueGaps, checkFVGMitigation, pruneFVGs.                     *)
(* sizePercentage = gapSize / refClose * 100 is kept as the pair           *)
(* (gapSize, refClose); id is the pair (i, direction) of the source's      *)
(* FVG_<i>_<direction>_<Date.now()>; mitigatedAt = -1 stands for undefined.*)
(***************************************************************************)
minFVGSize == 2               \* 0.2 %
nearEventMinutes == 3         \* 3 * 60000 ms
pruneAgeMinutes == 250        \* 50 * 5
minQuality == 20

\* (gap / close) * 100 >= pct
SizeAny(gap, close, perMille) == TRUE

SizeAtLeast(gap, close, perMille) == gap * 1000 >= perMille * close

isNearStructureEvent(fvgTimestamp, events) ==
    \E k \in 1..Len(events) :
        Abs(fvgTimestamp - events[k].timestamp) <= nearEventMinutes

calculateFVGQuality(gap, close, nearStructureEvent, barsFromEnd) ==
    LET size == IF SizeAtLeast(gap, close, 10) THEN 40
                ELSE IF SizeAtLeast(gap, close, 7) THEN 30
                ELSE IF SizeAtLeast(gap, close, 5) THEN 20
                ELSE IF SizeAtLeast(gap, close, 3) THEN 10
                ELSE 0
        near == IF nearStructureEvent THEN 30 ELSE 0
        recency == IF barsFromEnd <= 5 THEN 30
                   ELSE IF barsFromEnd <= 10 THEN 20
                   ELSE IF barsFromEnd <= 20 THEN 10
                   ELSE 0
    IN Min(100, size + near + recency)

Gap(cs, i, dir, upper, lower, events) ==
    LET gapSize == upper - lower
        near == isNearStructureEvent(At(cs, i).timestamp, events)
    IN [id |-> <<i, dir>>,
        upperBound |-> upper,
        lowerBound |-> lower,
        gapSize |-> gapSize,
        refClose |-> At(cs, i - 1).close,
        timestamp |-> At(cs, i).timestamp,
        direction |-> dir,
        isMitigated |-> FALSE,
        mitigatedAt |-> -1,
        qualityScore |-> calculateFVGQuality(gapSize, At(cs, i - 1).close, near,
                                             Len(cs) - i),
        nearStructureEvent |-> near]

\* the FVGs pushed for candle i: the bullish test, then the bearish test
GapsAt(cs, i, events) ==
    LET c0 == At(cs, i)
        c1 == At(cs, i - 1)
        c2 == At(cs, i - 2)
    IN (IF c2.high < c0.low /\ SizeAtLeast(c0.low - c2.high, c1.close, minFVGSize)
        THEN <<Gap(cs, i, "bullish", c0.low, c2.high, events)>> ELSE <<>>)
       \o
       (IF c2.low > c0.high /\ SizeAtLeast(c2.low - c0.high, c1.close, minFVGSize)
        THEN <<Gap(cs, i, "bearish", c2.low, c0.high, events)>> ELSE <<>>)

RECURSIVE GapScan(_, _, _)
GapScan(cs, i, events) ==
    IF i >= Len(cs) THEN <<>>
    ELSE GapsAt(cs, i, events) \o GapScan(cs, i + 1, events)

\* the test of one candle against one FVG
Mitigates(fvg, candle) ==
    IF fvg.direction = "bullish" THEN candle.low <= fvg.lowerBound
    ELSE candle.high >= fvg.upperBound

RelevantCandlesAll(cs, fvg) == cs

\* candles.filter(c => c.timestamp > fvg.timestamp), in array order
RelevantCandles(cs, fvg) ==
    SelectSeq(cs, LAMBDA c : c.timestamp > fvg.timestamp)

RECURSIVE FirstMitigating(_, _, _)
FirstMitigating(rel, fvg, k) ==
    IF k > Len(rel) THEN 0
    ELSE IF Mitigates(fvg, rel[k]) THEN k
    ELSE FirstMitigating(rel, fvg, k + 1)

MitigateOne(cs, fvg) ==
    IF fvg.isMitigated THEN fvg
    ELSE LET rel == RelevantCandles(cs, fvg)
             k == FirstMitigating(rel, fvg, 1)
         IN IF k = 0 THEN fvg
            ELSE [fvg EXCEPT !.isMitigated = TRUE, !.mitigatedAt = rel[k].timestamp]

checkFVGMitigation(cs, gaps) ==
    [k \in 1..Len(gaps) |-> MitigateOne(cs, gaps[k])]

pruneFVGs(gaps, now) ==
    SelectSeq(gaps, LAMBDA fvg :
        ~(now - fvg.timestamp > pruneAgeMinutes) /\ ~(fvg.qualityScore < minQuality))

\* detectFairValueGaps is the scan followed by checkFVGMitigation and pruneFVGs
detectFairValueGaps(cs, events, now) ==
    pruneFVGs(checkFVGMitigation(cs, GapScan(cs, 2, events)), now)

(***************************************************************************)
(* Candle series handed to the analyzer.  A series is a warm-up that forms *)
(* swing points followed by a tail of break candidates; prices are chosen  *)
(* on and around the thresholds of the swing levels 10000 (high), 9000     *)
(* (low) and 10200 (a low above the earlier high).                         *)
(***************************************************************************)
MaxTail == 4          \* tail tokens per series
MaxCalls == 2         \* analyzeMarketStructure calls per behaviour

Shape(o, h, l, c) == [open |-> o, high |-> h, low |-> l, close |-> c]

Flat == Shape(9450, 9500, 9400, 9450)
SpikeHigh == Shape(9450, 10000, 9400, 9450)
SpikeLow == Shape(9450, 9500, 9000, 9450)
Upper == Shape(10220, 10230, 10215, 10220)
DipLow == Shape(10220, 10230, 10200, 10220)
Break(c) == Shape(c - 10, c, c - 20, c)

Run(shape, n) == [k \in 1..n |-> shape]

Warmups(n) ==
    { Run(Flat, n) \o <<SpikeHigh>> \o Run(Flat, n),
      Run(Flat, n) \o <<SpikeLow>> \o Run(Flat, n),
      Run(Flat, n) \o <<SpikeHigh, SpikeLow>> \o Run(Flat, n),
      Run(Flat, n) \o <<SpikeHigh>> \o Run(Flat, n)
          \o Run(Upper, n) \o <<DipLow>> \o Run(Upper, n) }

TailTokens == {"N", "UB", "UC", "DC", "F"}

TokenCandles(t) ==
    CASE t = "N" -> <<Break(10030)>>     \* exactly 0.3 % above 10000
      [] t = "UB" -> <<Break(10050)>>    \* exactly 0.5 % above 10000
      [] t = "UC" -> <<Break(10150)>>    \* 1.5 % above 10000
      [] t = "DC" -> <<Break(8900)>>     \* 1.1 % below 9000
      [] t = "F" -> Run(Flat, structureLockBars - 1)

RECURSIVE Expand(_, _)
Expand(tokens, k) ==
    IF k > Len(tokens) THEN <<>>
    ELSE TokenCandles(tokens[k]) \o Expand(tokens, k + 1)

Tails == UNION { [1..n -> TailTokens] : n \in 0..MaxTail }

\* the candle at 0-based index i gets timestamp i * bar
StampAt(shape, ts) ==
    [open |-> shape.open, high |-> shape.high, low |-> shape.low,
     close |-> shape.close, timestamp |-> ts]

Stamp(shapes, bar) ==
    [k \in 1..Len(shapes) |-> StampAt(shapes[k], (k - 1) * bar)]

StructureSeries(bar) ==
    { Stamp(w \o Expand(t, 1), bar) : w \in Warmups(minLookback), t \in Tails }

\* wall-clock time of the call: at the last candle, or well after it
PruneDelays == {0, 200}

LastTimestamp(cs) == IF Len(cs) = 0 THEN 0 ELSE cs[Len(cs)].timestamp

(***************************************************************************)
(* analyzeMarketStructure: the whole call.                                 *)
(***************************************************************************)
\* steps 1-3 of analyzeMarketStructure, before the pruning of step 3
(***************************************************************************)
(* The snapshot functions of the analyzer.  structureConfidence is kept in *)
(* sixtieths (confidence * 60), so that (consistent / n) * 20 is an        *)
(* integer for every n in 1..5.                                            *)
(***************************************************************************)
determineMarketStructure(events) ==
    IF Len(events) = 0 THEN "Neutral"
    ELSE LET lastEvent == events[Len(events)]
         IN IF lastEvent.type = "CHOCH"
            THEN (IF lastEvent.direction = "bullish"
                  THEN "Bullish (CHoCH)" ELSE "Bearish (CHoCH)")
            ELSE (IF lastEvent.direction = "bullish" THEN "Bullish" ELSE "Bearish")

\* events.slice(-5)
LastFive(events) ==
    SubSeq(events, Max(1, Len(events) - 4), Len(events))

calculateStructureConfidenceNoDirection(events) ==
    LET recent == LastFive(events)
        n == Len(recent)
        majors == Cardinality({ k \in 1..n : recent[k].significance = "major" })
    IN IF n = 0 THEN 0
       ELSE Min(6000, Max(0, 3000 + 600 * n + 900 * majors))

calculateStructureConfidence(events) ==
    LET recent == LastFive(events)
        n == Len(recent)
        majors == Cardinality({ k \in 1..n : recent[k].significance = "major" })
        same == Cardinality({ k \in 1..n : recent[k].direction = recent[n].direction })
    IN IF n = 0 THEN 0
       ELSE Min(6000, Max(0, 3000 + 600 * n + 900 * majors + (1200 * same) \div n))

getLastBOSCHOCH(events) ==
    IF Len(events) > 0 THEN events[Len(events)] ELSE NoEvent

\* stable insertion into a list sorted by timestamp, newest first
RECURSIVE InsertNewestFirst(_, _)
InsertNewestFirst(sorted, x) ==
    IF sorted = <<>> THEN <<x>>
    ELSE IF x.timestamp > Head(sorted).timestamp THEN <<x>> \o sorted
    ELSE <<Head(sorted)>> \o InsertNewestFirst(Tail(sorted), x)

\* .sort((a, b) => b.timestamp - a.timestamp)
RECURSIVE NewestFirst(_)
NewestFirst(list) ==
    IF list = <<>> THEN <<>>
    ELSE InsertNewestFirst(NewestFirst(SubSeq(list, 1, Len(list) - 1)),
                           list[Len(list)])

\* list.slice(-n)
LastN(list, n) == SubSeq(list, Max(1, Len(list) - n + 1), Len(list))

activeLimit == 5
recentSwingLimit == 10
trendWindow == 20

getActiveFVGsOldest(gaps) ==
    NewestFirst(SubSeq(SelectSeq(gaps, LAMBDA fvg : ~fvg.isMitigated), 1,
                       Min(activeLimit, Len(SelectSeq(gaps, LAMBDA fvg : ~fvg.isMitigated)))))

getActiveFVGs(gaps) ==
    NewestFirst(LastN(SelectSeq(gaps, LAMBDA fvg : ~fvg.isMitigated), activeLimit))

getRecentSwingPoints(swings, count) == NewestFirst(LastN(swings, count))

\* trendStrength as the fraction num / den:
\* min(100, max(0, bullishPercentage + volatilityFactor * 5))
calculateTrendStrength(cs) ==
    IF Len(cs) < trendWindow THEN [num |-> 50, den |-> 1]
    ELSE LET rc == LastN(cs, trendWindow)
             bullishCandles == Cardinality({ k \in 1..Len(rc) : rc[k].close > rc[k].open })
             Move[k \in 0..Len(rc)] ==
                 IF k = 0 THEN 0 ELSE Move[k - 1] + Abs(rc[k].close - rc[k].open)
             lastClose == rc[Len(rc)].close
             num == 100 * bullishCandles * lastClose + 500 * Move[Len(rc)]
             den == trendWindow * lastClose
         IN IF num >= 100 * den THEN [num |-> 100, den |-> 1]
            ELSE [num |-> num, den |-> den]

\* the value analyzeMarketStructure returns after a full analysis
MarketStructureAnalysis(cs, swings, events, gaps) ==
    [currentStructure |-> determineMarketStructure(events),
     lastBOSCHOCH |-> getLastBOSCHOCH(events),
     activeFVGs |-> getActiveFVGs(gaps),
     recentSwingPoints |-> getRecentSwingPoints(swings, recentSwingLimit),
     trendStrength |-> calculateTrendStrength(cs),
     structureConfidence |-> calculateStructureConfidence(events)]

getDefaultAnalysis ==
    [currentStructure |-> "Neutral",
     lastBOSCHOCH |-> NoEvent,
     activeFVGs |-> <<>>,
     recentSwingPoints |-> <<>>,
     trendStrength |-> [num |-> 50, den |-> 1],
     structureConfidence |-> 0]

Detect(cs, lw) ==
    LET sw == detectSwingPoints(cs, lw)
    IN LET ev == detectBOSCHOCH(cs, sw, lw)
       IN [swings |-> sw, events |-> ev,
           gaps |-> checkFVGMitigation(cs, GapScan(cs, 2, ev))]

TooFewCandlesInclusive(cs, lw) == Len(cs) <= lw + 3

\* candles.length < this.lookbackWindow + 3
TooFewCandles(cs, lw) == Len(cs) < lw + 3

AnalyzeMarketStructure ==
    /\ pc = "ready"
    /\ IF TooFewCandles(candles, lookbackWindow)
       THEN /\ snapshot' = <<getDefaultAnalysis>>
            /\ UNCHANGED <<swingPoints, bosChochEvents, fairValueGaps,
                           prevSwingPoints, createdFVGs, calledAt>>
       ELSE \E r \in {Detect(candles, lookbackWindow)} :
               /\ swingPoints' = r.swings
               /\ bosChochEvents' = r.events
               /\ createdFVGs' = r.gaps
               /\ \E d \in PruneDelays :
                     \E gaps \in {pruneFVGs(r.gaps, LastTimestamp(candles) + d)} :
                        /\ calledAt' = LastTimestamp(candles) + d
                        /\ fairValueGaps' = gaps
                        /\ snapshot' = <<MarketStructureAnalysis(candles, r.swings,
                                                                 r.events, gaps)>>
               /\ prevSwingPoints' = swingPoints
    /\ prevSnapshot' = snapshot
    /\ pc' = "done"
    /\ calls' = calls + 1
    /\ UNCHANGED <<lookbackWindow, barMinutes, candles>>

InitAnalyzer ==
    /\ pc = "ready"
    /\ swingPoints = <<>>
    /\ bosChochEvents = <<>>
    /\ fairValueGaps = <<>>
    /\ prevSwingPoints = <<>>
    /\ calls = 0
    /\ snapshot = <<>>
    /\ prevSnapshot = <<>>
    /\ createdFVGs = <<>>
    /\ calledAt = 0

BatchIdle ==
    /\ batchSymbols = <<>>
    /\ batchPos = 0
    /\ batchResults = <<>>
    /\ batchPc = "idle"
    /\ batchTrace = <<>>
    /\ stockResult = <<>>

\* a missing argument (null, undefined) is <<>>, a present one <<stock>>
Missing == <<>>
NoCall == [previous |-> Missing, current |-> Missing, made |-> <<>>]

NoRecent == [limit |-> -1, after |-> 0, result |-> <<>>]

NotifyIdle ==
    /\ notifications = <<>>
    /\ clock = 0
    /\ created = 0
    /\ lastCall = NoCall
    /\ recentCall = NoRecent

(***************************************************************************)
(* Clients of the notification service and the signal store before any     *)
(* connection and any scan.                                                *)
(***************************************************************************)
MaxClients == 2
Sockets == 1..MaxClients

\* values generateClientId can return
ClientIds == {"a", "b"}

\* the settings a connection starts with
DefaultSettings ==
    [bosEntry |-> TRUE, bosBreak |-> TRUE, fvgMitigated |-> FALSE,
     trendChange |-> TRUE, priceAlerts |-> TRUE, favoriteStocksOnly |-> FALSE]

NoBroadcast ==
    [id |-> 0, type |-> "", connected |-> {},
     own |-> [s \in Sockets |-> DefaultSettings]]

ClientsIdle ==
    /\ clients = [id \in ClientIds |-> <<>>]
    /\ sockets = [s \in Sockets |-> [state |-> "new", clientId |-> ""]]
    /\ own = [s \in Sockets |-> DefaultSettings]
    /\ received = [s \in Sockets |-> {}]
    /\ lastBroadcast = NoBroadcast

\* the store is constructed long after the epoch
StartTime == 1000

NoRequest == [made |-> FALSE, fetched |-> FALSE]
NoRefresh == [outcome |-> "none", applied |-> <<>>, hadFavorite |-> FALSE,
              succeeded |-> 0]
NoToggle == [stockId |-> 0, userId |-> <<>>, found |-> FALSE, before |-> FALSE,
             after |-> FALSE]

\* MemStorage after construction: initializeWithRealData has failed already,
\* because no access token exists before the first authentication
StoreIdle ==
    /\ stocks = <<>>
    /\ currentStockId = 1
    /\ scans = 0
    /\ storeNow = StartTime
    /\ lastUpdate = 0
    /\ inFlight = 0
    /\ lastRequest = NoRequest
    /\ lastRefresh = NoRefresh
    /\ lastToggle = NoToggle

ScanIdle == chochSince = FALSE

\* new WebSocket(wsUrl): readyState CONNECTING
NewWebSocket(now, cause) ==
    [readyState |-> "connecting", createdAt |-> now, closedAt |-> -1,
     closedMounted |-> FALSE, cause |-> cause]

\* the hook after its effect has run: connectWebSocket() was called once
HookIdle ==
    /\ hookMounted = TRUE
    /\ isConnected = FALSE
    /\ webSockets = <<NewWebSocket(0, 0)>>
    /\ reconnectTimers = {}
    /\ hookNow = 0
    /\ openedUnmounted = 0

AnalyzerIdle ==
    /\ lookbackWindow = 20
    /\ barMinutes = 5
    /\ candles = <<>>
    /\ InitAnalyzer

(***************************************************************************)
(* Spec: one analyzer (lookbackWindow 2, so the adaptive lookback is the   *)
(* minimum 5) analyses one series of 5-minute candles.                     *)
(***************************************************************************)
Init ==
    /\ lookbackWindow = 2
    /\ barMinutes = 5
    /\ candles \in StructureSeries(barMinutes)
    /\ InitAnalyzer
    /\ BatchIdle
    /\ NotifyIdle
    /\ ClientsIdle
    /\ StoreIdle
    /\ ScanIdle
    /\ HookIdle

Next == AnalyzeMarketStructure /\ UNCHANGED <<batchVars, notifyVars, clientVars, storeVars, scanVars, hookVars>>

Spec == Init /\ [][Next]_vars

(***************************************************************************)
(* SpecSwing: a series is analysed, one candle is appended and the series  *)
(* is analysed again by the same analyzer.                                 *)
(***************************************************************************)
SwingSeries(bar) ==
    { Stamp(Run(Flat, n1) \o <<s>> \o Run(Flat, n2), bar) :
        n1 \in 5..6, s \in {SpikeHigh, SpikeLow}, n2 \in 5..9 }

\* a quiet series whose volatility ratio is just below 1 %
Calm == Shape(9450, 9497, 9404, 9450)
CalmSpike == Shape(9450, 9515, 9404, 9450)

CalmSeries(bar) ==
    { Stamp(Run(Calm, 10) \o <<CalmSpike>> \o Run(Calm, n2), bar) : n2 \in 12..13 }

AppendShapes == {Flat, SpikeHigh, Break(10050), Break(8450)}

\* the provider delivers the series extended by its next candle
AppendCandle ==
    /\ pc = "done"
    /\ calls < MaxCalls
    /\ \E x \in AppendShapes :
          candles' = Append(candles, StampAt(x, Len(candles) * barMinutes))
    /\ pc' = "ready"
    /\ UNCHANGED <<lookbackWindow, barMinutes, swingPoints, bosChochEvents,
                   fairValueGaps, prevSwingPoints, calls, snapshot, prevSnapshot,
                   createdFVGs, calledAt>>

InitSwing ==
    /\ barMinutes = 5
    /\ \/ lookbackWindow \in {2, 6} /\ candles \in SwingSeries(barMinutes)
       \/ lookbackWindow = 20 /\ candles \in CalmSeries(barMinutes)
    /\ InitAnalyzer
    /\ BatchIdle
    /\ NotifyIdle
    /\ ClientsIdle
    /\ StoreIdle
    /\ ScanIdle
    /\ HookIdle

NextSwing ==
    \/ AnalyzeMarketStructure /\ UNCHANGED <<batchVars, notifyVars, clientVars, storeVars, scanVars, hookVars>>
    \/ AppendCandle /\ UNCHANGED <<batchVars, notifyVars, clientVars, storeVars, scanVars, hookVars>>

SpecSwing == InitSwing /\ [][NextSwing]_vars

\* C6: every swing point detected on a series is detected again on the
\* series extended by one candle.
C6_AppendMonotone ==
    (pc = "done" /\ calls >= 2) =>
        \A k \in 1..Len(prevSwingPoints) :
            \E n \in 1..Len(swingPoints) : swingPoints[n] = prevSwingPoints[k]


(***************************************************************************)
(* Vocabulary of the structure claims, read off the analyzer's tables      *)
(* after a call.                                                           *)
(***************************************************************************)
Analysed == pc = "done" /\ Len(candles) >= lookbackWindow + 3

EventIds == 1..Len(bosChochEvents)

\* the 0-based candle index an event was emitted at
CandleOf(k) == bosChochEvents[k].timestamp \div barMinutes

IsEvent(k, kind, dir) ==
    bosChochEvents[k].type = kind /\ bosChochEvents[k].direction = dir

\* candle indices the structure loop runs over
LoopIndices == Max(lookbackWindow, 1)..(Len(candles) - 1)

\* i is outside every lock window opened by an earlier event
OutsideLock(i) ==
    \A k \in EventIds : CandleOf(k) < i => i >= CandleOf(k) + structureLockBars

SwingIds(kind, i) ==
    { n \in 1..Len(swingPoints) :
        swingPoints[n].type = kind /\ swingPoints[n].index < i }

HasSwing(kind, i) == SwingIds(kind, i) # {}

\* price of the most recent swing of the kind before candle i
SwingLevel(kind, i) ==
    LET n == CHOOSE m \in SwingIds(kind, i) :
                 \A o \in SwingIds(kind, i) : swingPoints[o].index <= swingPoints[m].index
    IN swingPoints[n].price

EventsAt(i) == { k \in EventIds : CandleOf(k) = i }

Above(i, kind, perMille) ==
    At(candles, i).close * 1000 > SwingLevel(kind, i) * (1000 + perMille)

Below(i, kind, perMille) ==
    At(candles, i).close * 1000 < SwingLevel(kind, i) * (1000 - perMille)

\* C1: an event at candle i is followed by no event of the opposite direction
\* at any candle j with i <= j < i + structureLockBars.
C1_NoOppositeWithinLock ==
    Analysed =>
        \A a, b \in EventIds :
            bosChochEvents[a].direction # bosChochEvents[b].direction
                => ~(CandleOf(a) <= CandleOf(b)
                     /\ CandleOf(b) < CandleOf(a) + structureLockBars)

\* a candle inside the lock window of a bullish event closes below the last
\* swing low by more than the BOS threshold (or the mirror image)
C1_Witness ==
    /\ Analysed
    /\ \E a \in EventIds :
         \E j \in (CandleOf(a) + 1)..(CandleOf(a) + structureLockBars - 1) :
            /\ j < Len(candles)
            /\ \/ /\ bosChochEvents[a].direction = "bullish"
                  /\ HasSwing("low", j) /\ Below(j, "low", bosThreshold)
               \/ /\ bosChochEvents[a].direction = "bearish"
                  /\ HasSwing("high", j) /\ Above(j, "high", bosThreshold)

\* C2: every BOS event breaks its level by at least 0.3 %, every CHOCH event
\* by at least 0.5 %.
C2_EventsMeetThreshold ==
    Analysed =>
        \A k \in EventIds :
            LET e == bosChochEvents[k]
                thr == IF e.type = "BOS" THEN bosThreshold ELSE chochThreshold
            IN /\ e.brokenLevel > 0
               /\ Abs(e.price - e.brokenLevel) * 1000 >= thr * e.brokenLevel

C2_Witness ==
    /\ Analysed
    /\ \E k \in EventIds : bosChochEvents[k].type = "BOS"
    /\ \E k \in EventIds : bosChochEvents[k].type = "CHOCH"

\* the premises of C3 at candle i, for a break of the swing of the given kind
C3_Premise(i, kind, dir) ==
    /\ OutsideLock(i)
    /\ HasSwing(kind, i)
    /\ ~\E k \in EventIds :
          /\ CandleOf(k) < i
          /\ IsEvent(k, "BOS", IF dir = "bullish" THEN "bearish" ELSE "bullish")

C3_Breaks(i, dir) ==
    IF dir = "bullish" THEN Above(i, "high", bosThreshold)
    ELSE Below(i, "low", bosThreshold)

\* the close is beyond the swing level but within the BOS threshold of it
C3_InNoiseBand(i, dir) ==
    IF dir = "bullish"
    THEN At(candles, i).close > SwingLevel("high", i) /\ ~Above(i, "high", bosThreshold)
    ELSE At(candles, i).close < SwingLevel("low", i) /\ ~Below(i, "low", bosThreshold)

C3_BosIff(i, kind, dir) ==
    LET bos == { k \in EventsAt(i) : IsEvent(k, "BOS", dir) }
    IN /\ (bos # {}) <=> C3_Breaks(i, dir)
       /\ Cardinality(bos) <= 1
       /\ \A k \in bos :
            /\ bosChochEvents[k].brokenLevel = SwingLevel(kind, i)
            /\ bosChochEvents[k].price = At(candles, i).close

C4_OneEventPerCandle ==
    Analysed =>
        \A i \in LoopIndices :
            /\ Cardinality(EventsAt(i)) <= 1
            /\ (\E k \in EventsAt(i) : bosChochEvents[k].type = "CHOCH")
                  => ~\E k \in EventsAt(i) : bosChochEvents[k].type = "BOS"

Opposite(dir) == IF dir = "bullish" THEN "bearish" ELSE "bullish"

\* C5: a CHOCH follows a BOS of the opposite direction emitted at a strictly
\* earlier candle, with no CHOCH of its own direction in between.
C5_ChochNeedsPriorBos ==
    Analysed =>
        \A k \in EventIds :
            bosChochEvents[k].type = "CHOCH" =>
                \E m \in 1..(k - 1) :
                    /\ IsEvent(m, "BOS", Opposite(bosChochEvents[k].direction))
                    /\ CandleOf(m) < CandleOf(k)
                    /\ \A n \in (m + 1)..(k - 1) :
                          ~IsEvent(n, "CHOCH", bosChochEvents[k].direction)

\* after a CHOCH, an examined candle breaks the same level by the CHOCH
\* threshold again
C5_Witness ==
    /\ Analysed
    /\ \E k \in EventIds :
         /\ bosChochEvents[k].type = "CHOCH"
         /\ \E j \in LoopIndices :
              /\ j > CandleOf(k)
              /\ OutsideLock(j)
              /\ IF bosChochEvents[k].direction = "bearish"
                 THEN HasSwing("low", j) /\ Below(j, "low", chochThreshold)
                 ELSE HasSwing("high", j) /\ Above(j, "high", chochThreshold)

GapIds == 1..Len(fairValueGaps)

\* the candles after the gap's creation that reach back into it
FillingCandles(g) ==
    { k \in 1..Len(candles) :
        /\ candles[k].timestamp > fairValueGaps[g].timestamp
        /\ IF fairValueGaps[g].direction = "bullish"
           THEN candles[k].low <= fairValueGaps[g].lowerBound
           ELSE candles[k].high >= fairValueGaps[g].upperBound }

\* C7: an FVG is mitigated iff a later candle reaches back into it, and
\* mitigatedAt is the timestamp of the first such candle, not before creation.
C7_MitigationExact ==
    Analysed =>
        \A g \in GapIds :
            LET f == fairValueGaps[g]
            IN /\ f.isMitigated <=> FillingCandles(g) # {}
               /\ f.isMitigated =>
                    /\ \E k \in FillingCandles(g) :
                          /\ f.mitigatedAt = candles[k].timestamp
                          /\ \A n \in FillingCandles(g) : k <= n
                    /\ f.mitigatedAt >= f.timestamp
               /\ ~f.isMitigated => f.mitigatedAt = -1

C7_Witness ==
    /\ Analysed
    /\ \E g \in GapIds :
         /\ fairValueGaps[g].isMitigated
         /\ Cardinality(FillingCandles(g)) >= 2
    /\ \E g \in GapIds : ~fairValueGaps[g].isMitigated

(***************************************************************************)
(* The batch analyzer builds its own MarketStructureAnalyzer for every     *)
(* timeframe; its snapshot functions are the same text as the ones above.  *)
(***************************************************************************)
\* the MarketStructureAnalysis fields the batch analyzer reads
Snapshot(events) ==
    [currentStructure |-> determineMarketStructure(events),
     lastBOSCHOCH |-> getLastBOSCHOCH(events),
     structureConfidence |-> calculateStructureConfidence(events)]

(***************************************************************************)
(* BatchSMCAnalyzer.  generateCandleData draws the candles of a timeframe  *)
(* at random, so the analysis of a timeframe is a free choice among        *)
(* SampleAnalyses, with at most MaxSignals timeframes that saw an event.   *)
(* analyzeBatch awaits analyzeStock once per symbol: one step per loop     *)
(* iteration, and one for the sort and the return.                         *)
(***************************************************************************)
timeframes == <<"5m", "15m", "30m", "1h", "2h", "4h">>
minTimeframeMatches == 2
confidenceFloor == 3000       \* structureConfidence > 50

Symbols == {"RELIANCE", "TCS"}

SampleEvent(kind, dir, level, price) ==
    [type |-> kind, direction |-> dir, price |-> price, timestamp |-> 0,
     brokenLevel |-> level,
     significance |-> calculateSignificance(level, price)]

SampleEvents ==
    { <<>>,
      <<SampleEvent("BOS", "bullish", 10000, 10050)>>,
      <<SampleEvent("BOS", "bullish", 10000, 10050),
        SampleEvent("CHOCH", "bearish", 9000, 8900)>> }

hasValidStructureSignal(analysis) ==
    /\ analysis.currentStructure # "Neutral"
    /\ analysis.lastBOSCHOCH # NoEvent
    /\ analysis.structureConfidence > confidenceFloor

SampleAnalyses == { Snapshot(events) : events \in SampleEvents }

MaxSignals == 3

Analyses ==
    { f \in [1..Len(timeframes) -> SampleAnalyses] :
        Cardinality({ k \in 1..Len(timeframes) : f[k].lastBOSCHOCH # NoEvent })
            <= MaxSignals }

TimeframeData(tf, analysis) ==
    [timeframe |-> tf,
     analysis |-> analysis,
     hasValidSignal |-> hasValidStructureSignal(analysis)]

\* validTimeframes: incremented once per timeframe with a valid signal
CountValidAll(results) == Len(results)

CountValid(results) ==
    Cardinality({ k \in 1..Len(results) : results[k].hasValidSignal })

\* overallConfidence: the sum of structureConfidence over the valid timeframes
RECURSIVE ConfidenceSum(_, _)
ConfidenceSum(results, k) ==
    IF k > Len(results) THEN 0
    ELSE (IF results[k].hasValidSignal
          THEN results[k].analysis.structureConfidence ELSE 0)
         + ConfidenceSum(results, k + 1)

\* .filter(tf => tf.hasValidSignal).sort(by structureConfidence, descending)[0]
HighestConfidenceTimeframeLast(results) ==
    LET valid == SelectSeq(results, LAMBDA tf : tf.hasValidSignal)
        best == CHOOSE k \in 1..Len(valid) :
                    /\ \A m \in 1..Len(valid) :
                          valid[m].analysis.structureConfidence
                              <= valid[k].analysis.structureConfidence
                    /\ \A m \in (k + 1)..Len(valid) :
                          valid[m].analysis.structureConfidence
                              < valid[k].analysis.structureConfidence
    IN valid[best]

\* the sort is stable: among equal confidences the first timeframe stays first
HighestConfidenceTimeframe(results) ==
    LET valid == SelectSeq(results, LAMBDA tf : tf.hasValidSignal)
        best == CHOOSE k \in 1..Len(valid) :
                    /\ \A m \in 1..Len(valid) :
                          valid[m].analysis.structureConfidence
                              <= valid[k].analysis.structureConfidence
                    /\ \A m \in 1..(k - 1) :
                          valid[m].analysis.structureConfidence
                              < valid[k].analysis.structureConfidence
    IN valid[best]

\* highestConfidenceTimeframe?.analysis.currentStructure || 'Neutral'
overallStructure(results) ==
    IF \A k \in 1..Len(results) : ~results[k].hasValidSignal
    THEN "Neutral"
    ELSE HighestConfidenceTimeframe(results).analysis.currentStructure

\* analyzeStock: <<>> stands for null, <<r>> for the result r.
\* structureConfidence = confidenceSum / matchingTimeframes
analyzeStock(symbol, analysisOf) ==
    LET results == [k \in 1..Len(timeframes) |->
                        TimeframeData(timeframes[k], analysisOf[k])]
        validTimeframes == CountValid(results)
    IN IF validTimeframes < minTimeframeMatches THEN <<>>
       ELSE << [symbol |-> symbol,
                timeframes |-> results,
                matchingTimeframes |-> validTimeframes,
                overallStructure |-> overallStructure(results),
                confidenceSum |-> ConfidenceSum(results, 1)] >>

\* the comparator of results.sort: a before b
SortsBefore(a, b) ==
    IF a.matchingTimeframes # b.matchingTimeframes
    THEN a.matchingTimeframes > b.matchingTimeframes
    ELSE a.confidenceSum * b.matchingTimeframes > b.confidenceSum * a.matchingTimeframes

\* stable insertion of r into a sorted list
RECURSIVE InsertSorted(_, _)
InsertSorted(sorted, r) ==
    IF sorted = <<>> THEN <<r>>
    ELSE IF SortsBefore(r, Head(sorted)) THEN <<r>> \o sorted
    ELSE <<Head(sorted)>> \o InsertSorted(Tail(sorted), r)

RECURSIVE SortResults(_)
SortResults(results) ==
    IF results = <<>> THEN <<>>
    ELSE InsertSorted(SortResults(SubSeq(results, 1, Len(results) - 1)),
                      results[Len(results)])

\* if (stockResult && stockResult.matchingTimeframes >= minTimeframeMatches)
\*     results.push(stockResult)
PushResult(results, r) ==
    IF r # <<>> /\ r[1].matchingTimeframes >= minTimeframeMatches
    THEN Append(results, r[1])
    ELSE results

AfterErrorAbort(results) == <<>>

\* the catch blocks: analyzeStock returns null, the loop goes on
AfterError(results) == results

\* entries of batchTrace
Failed == [failed |-> TRUE, analysisOf |-> <<>>]
Analysed6(analysisOf) == [failed |-> FALSE, analysisOf |-> analysisOf]

\* one iteration of the loop of analyzeBatch
AnalyzeStockStep ==
    /\ batchPc = "running"
    /\ batchPos < Len(batchSymbols)
    /\ \/ \E analysisOf \in Analyses :
            /\ batchResults' =
                  PushResult(batchResults,
                             analyzeStock(batchSymbols[batchPos + 1], analysisOf))
            /\ batchTrace' = Append(batchTrace, Analysed6(analysisOf))
       \/ \* an error was raised while the symbol was analysed
          /\ batchResults' = AfterError(batchResults)
          /\ batchTrace' = Append(batchTrace, Failed)
    /\ batchPos' = batchPos + 1
    /\ UNCHANGED <<batchSymbols, batchPc, stockResult>>

ReturnBatch ==
    /\ batchPc = "running"
    /\ batchPos = Len(batchSymbols)
    /\ batchResults' = SortResults(batchResults)
    /\ batchPc' = "returned"
    /\ UNCHANGED <<batchSymbols, batchPos, batchTrace, stockResult>>

SymbolLists ==
    { <<a>> : a \in Symbols }
        \cup { p \in { <<a, b>> : a \in Symbols, b \in Symbols } : p[1] # p[2] }

InitBatch ==
    /\ AnalyzerIdle
    /\ NotifyIdle
    /\ ClientsIdle
    /\ StoreIdle
    /\ ScanIdle
    /\ HookIdle
    /\ batchSymbols \in SymbolLists
    /\ batchPos = 0
    /\ batchResults = <<>>
    /\ batchPc = "running"
    /\ batchTrace = <<>>
    /\ stockResult = <<>>

NextBatch ==
    \/ AnalyzeStockStep /\ UNCHANGED <<analyzerVars, notifyVars, clientVars, storeVars, scanVars, hookVars>>
    \/ ReturnBatch /\ UNCHANGED <<analyzerVars, notifyVars, clientVars, storeVars, scanVars, hookVars>>

SpecBatch == InitBatch /\ [][NextBatch]_vars

\* C8: every result of analyzeBatch has matchingTimeframes >= 2, and
\* matchingTimeframes is the number of its entries with hasValidSignal.
C8_MatchingTimeframes ==
    \A k \in 1..Len(batchResults) :
        LET r == batchResults[k]
        IN /\ r.matchingTimeframes >= minTimeframeMatches
           /\ r.matchingTimeframes =
                Cardinality({ t \in 1..Len(r.timeframes) : r.timeframes[t].hasValidSignal })

\* a returned batch that kept a symbol with exactly two valid timeframes and
\* dropped another symbol
C8_Witness ==
    /\ batchPc = "returned"
    /\ Len(batchResults) = 1
    /\ Len(batchSymbols) = 2
    /\ batchResults[1].matchingTimeframes = minTimeframeMatches

(***************************************************************************)
(* NotificationService.  distance is kept in tenths of a percent, the      *)
(* clock in seconds.                                                       *)
(***************************************************************************)
maxNotifications == 100
entryFrom == 30               \* previousStock.distance > 3
entryTo == 20                 \* currentStock.distance <= 2

Distances == {20, 21, 30, 31}
Zones == {"NEUTRAL", "NEAR_UPPER_BOS"}
Trends == {"BULLISH", "BEARISH"}

AlertSymbols == {"TCS"}

StockSnapshots ==
    [symbol : AlertSymbols, distance : Distances, proximityZone : Zones, trend : Trends]

Arguments == {Missing} \cup { <<s>> : s \in StockSnapshots }

\* the two arguments are snapshots of one stock
SameStock(previousStock, currentStock) ==
    (previousStock # Missing /\ currentStock # Missing)
        => previousStock[1].symbol = currentStock[1].symbol

TickSeconds == 30
MaxTicks == 1
MaxCreated == 2

Notification(id, stockSymbol, type, priority, now) ==
    [id |-> id, stockSymbol |-> stockSymbol, type |-> type,
     timestamp |-> now, read |-> FALSE, priority |-> priority]

createNotificationUncapped(list, n) == <<n>> \o list

\* this.notifications after createNotification: unshift, then slice(0, 100)
createNotification(list, n) ==
    LET longer == <<n>> \o list
    IN IF Len(longer) > maxNotifications
       THEN SubSeq(longer, 1, maxNotifications)
       ELSE longer

BosEntryStrict(previousStock, currentStock) ==
    previousStock.distance > entryFrom /\ currentStock.distance < entryTo

BosEntry(previousStock, currentStock) ==
    previousStock.distance > entryFrom /\ currentStock.distance <= entryTo

BosBreak(previousStock, currentStock) ==
    previousStock.proximityZone # "NEUTRAL" /\ currentStock.proximityZone = "NEUTRAL"

TrendChange(previousStock, currentStock) ==
    previousStock.trend # currentStock.trend

\* the notifications one call of checkForAlerts creates, oldest first
Alerts(previousStock, currentStock, firstId, now) ==
    LET entry == IF BosEntry(previousStock, currentStock)
                 THEN <<Notification(firstId, currentStock.symbol,
                                     "BOS_ENTRY", "HIGH", now)>>
                 ELSE <<>>
        break == IF BosBreak(previousStock, currentStock)
                 THEN <<Notification(firstId + Len(entry), currentStock.symbol,
                                     "BOS_BREAK", "HIGH", now)>>
                 ELSE <<>>
        change == IF TrendChange(previousStock, currentStock)
                  THEN <<Notification(firstId + Len(entry) + Len(break),
                                      currentStock.symbol,
                                      "TREND_CHANGE", "MEDIUM", now)>>
                  ELSE <<>>
    IN entry \o break \o change

RECURSIVE CreateAll(_, _)
CreateAll(list, made) ==
    IF made = <<>> THEN list
    ELSE CreateAll(createNotification(list, Head(made)), Tail(made))

CheckForAlerts ==
    /\ created < MaxCreated
    /\ \E previousStock \in Arguments, currentStock \in Arguments :
          /\ SameStock(previousStock, currentStock)
          /\ LET made == IF previousStock = Missing \/ currentStock = Missing
                         THEN <<>>
                         ELSE Alerts(previousStock[1], currentStock[1],
                                     created + 1, clock)
             IN /\ notifications' = CreateAll(notifications, made)
                /\ created' = created + Len(made)
                /\ lastCall' = [previous |-> previousStock,
                                current |-> currentStock,
                                made |-> made]
    /\ UNCHANGED <<clock, recentCall>>

Tick ==
    /\ clock < MaxTicks * TickSeconds
    /\ clock' = clock + TickSeconds
    /\ UNCHANGED <<notifications, created, lastCall, recentCall>>

InitNotify ==
    /\ AnalyzerIdle
    /\ BatchIdle
    /\ NotifyIdle
    /\ ClientsIdle
    /\ StoreIdle
    /\ ScanIdle
    /\ HookIdle

NextNotify ==
    \/ CheckForAlerts /\ UNCHANGED <<analyzerVars, batchVars, clientVars, storeVars, scanVars, hookVars>>
    \/ Tick /\ UNCHANGED <<analyzerVars, batchVars, clientVars, storeVars, scanVars, hookVars>>

SpecNotify == InitNotify /\ [][NextNotify]_vars

\* C9: no two notifications with the same stock symbol and type are created
\* less than one minute apart.
C9_NoDuplicateWithinMinute ==
    \A a, b \in 1..Len(notifications) :
        (/\ a # b
         /\ notifications[a].stockSymbol = notifications[b].stockSymbol
         /\ notifications[a].type = notifications[b].type)
        => Abs(notifications[a].timestamp - notifications[b].timestamp) >= 60

EntriesOf(made) ==
    SelectSeq(made, LAMBDA n : n.type = "BOS_ENTRY")

\* C10: a call of checkForAlerts creates exactly one BOS_ENTRY notification,
\* of priority HIGH, when both snapshots are present, the previous distance is
\* above 3 and the current one is at most 2; otherwise it creates none.
C10_BosEntryIff ==
    LET p == lastCall.previous
        c == lastCall.current
        entries == EntriesOf(lastCall.made)
    IN IF p # Missing /\ c # Missing /\ p[1].distance > 30 /\ c[1].distance <= 20
       THEN /\ Len(entries) = 1
            /\ entries[1].priority = "HIGH"
            /\ entries[1].stockSymbol = c[1].symbol
            /\ \E k \in 1..Len(notifications) : notifications[k] = entries[1]
       ELSE entries = <<>>

\* a call on the boundary (current distance exactly 2) that created the
\* notification and nothing else
C10_Witness ==
    /\ lastCall.previous # Missing
    /\ lastCall.current # Missing
    /\ lastCall.current[1].distance = 20
    /\ Len(EntriesOf(lastCall.made)) = 1
    /\ Len(notifications) = 1

(***************************************************************************)
(* The retained list under many createNotification calls, and             *)
(* getRecentNotifications.  The calls differ only in the notification's    *)
(* id, which is what the retained list is told apart by.                   *)
(***************************************************************************)
MaxRing == 102
Limits == {0, 1, 20, 100, 150}

\* this.notifications.slice(0, limit), limit >= 0
getRecentNotifications(list, limit) ==
    SubSeq(list, 1, Min(limit, Len(list)))

CreateNotification ==
    /\ created < MaxRing
    /\ \E stockSymbol \in AlertSymbols :
          notifications' =
              createNotification(notifications,
                  Notification(created + 1, stockSymbol, "PRICE_ALERT", "MEDIUM", clock))
    /\ created' = created + 1
    /\ UNCHANGED <<clock, lastCall, recentCall>>

GetRecentNotifications ==
    /\ \E limit \in Limits :
          recentCall' = [limit |-> limit,
                         after |-> created,
                         result |-> getRecentNotifications(notifications, limit)]
    /\ UNCHANGED <<notifications, clock, created, lastCall>>

NextRing ==
    \/ CreateNotification /\ UNCHANGED <<analyzerVars, batchVars, clientVars, storeVars, scanVars, hookVars>>
    \/ GetRecentNotifications /\ UNCHANGED <<analyzerVars, batchVars, clientVars, storeVars, scanVars, hookVars>>

SpecRing == InitNotify /\ [][NextRing]_vars

\* C11: the retained list holds the min(n, 100) most recently created
\* notifications, newest first, and getRecentNotifications(limit) returns the
\* newest min(limit, length) of the list it was called on, in that order.
C11_RingBuffer ==
    /\ Len(notifications) = Min(created, 100)
    /\ \A k \in 1..Len(notifications) : notifications[k].id = created - k + 1
    /\ recentCall # NoRecent =>
         /\ Len(recentCall.result) = Min(recentCall.limit, Min(recentCall.after, 100))
         /\ \A k \in 1..Len(recentCall.result) :
               recentCall.result[k].id = recentCall.after - k + 1

\* more than 100 notifications were created, and a call with the limit 20
\* returned the newest 20 of the 100 retained ones
C11_Witness ==
    /\ created > 100
    /\ Len(notifications) = 100
    /\ recentCall.limit = 20
    /\ recentCall.after = created
    /\ Len(recentCall.result) = 20

(***************************************************************************)
(* A single analyzeStock, over all six timeframes and a pool of analyses   *)
(* in which two different structures have the same confidence.             *)
(***************************************************************************)
StockEvents ==
    SampleEvents \cup { <<SampleEvent("BOS", "bearish", 9000, 8960),
                          SampleEvent("CHOCH", "bullish", 10000, 10150)>> }

StockAnalyses == { Snapshot(events) : events \in StockEvents }

AnalyzeStock ==
    /\ batchPc = "idle"
    /\ \E symbol \in Symbols :
          \/ \E analysisOf \in [1..Len(timeframes) -> StockAnalyses] :
                /\ stockResult' = analyzeStock(symbol, analysisOf)
                /\ batchTrace' = <<Analysed6(analysisOf)>>
          \/ \* the catch block of analyzeStock
             /\ stockResult' = <<>>
             /\ batchTrace' = <<Failed>>
    /\ batchPc' = "stock"
    /\ UNCHANGED <<batchSymbols, batchPos, batchResults>>

InitStock ==
    /\ AnalyzerIdle
    /\ NotifyIdle
    /\ ClientsIdle
    /\ StoreIdle
    /\ ScanIdle
    /\ HookIdle
    /\ BatchIdle

NextStock == AnalyzeStock /\ UNCHANGED <<analyzerVars, notifyVars, clientVars, storeVars, scanVars, hookVars>>

SpecStock == InitStock /\ [][NextStock]_vars

ValidEntries(r) ==
    { t \in 1..Len(r.timeframes) : r.timeframes[t].hasValidSignal }

ConfidenceOf(r, t) == r.timeframes[t].analysis.structureConfidence

\* C12: overallStructure is the currentStructure of the valid timeframe entry
\* of maximal structureConfidence, the first in timeframe order on ties; it is
\* never Neutral.
C12_OverallStructure ==
    stockResult # <<>> =>
        LET r == stockResult[1]
        IN /\ \E t \in ValidEntries(r) :
                /\ \A u \in ValidEntries(r) : ConfidenceOf(r, u) <= ConfidenceOf(r, t)
                /\ \A u \in ValidEntries(r) :
                      u < t => ConfidenceOf(r, u) < ConfidenceOf(r, t)
                /\ r.overallStructure = r.timeframes[t].analysis.currentStructure
           /\ r.overallStructure # "Neutral"

\* a result in which two valid entries tie at the maximal confidence with
\* different structures, and a third valid entry has a lower confidence
C12_Witness ==
    /\ stockResult # <<>>
    /\ LET r == stockResult[1]
       IN \E t, u, v \in ValidEntries(r) :
             /\ t < u
             /\ ConfidenceOf(r, t) = ConfidenceOf(r, u)
             /\ ConfidenceOf(r, v) < ConfidenceOf(r, t)
             /\ \A w \in ValidEntries(r) : ConfidenceOf(r, w) <= ConfidenceOf(r, t)
             /\ r.timeframes[t].analysis.currentStructure
                    # r.timeframes[u].analysis.currentStructure

(***************************************************************************)
(* The same analyzer instance is called twice on the same candle array.    *)
(* Each call reads the wall clock in pruneFVGs (PruneDelays after the      *)
(* last candle).  The Date.now() suffix of an FVG's id is left out of the  *)
(* model, so two snapshots differ only when their contents do.             *)
(***************************************************************************)
CallAgain ==
    /\ pc = "done"
    /\ calls < MaxCalls
    /\ pc' = "ready"
    /\ UNCHANGED <<lookbackWindow, barMinutes, candles, swingPoints, bosChochEvents,
                   fairValueGaps, prevSwingPoints, calls, snapshot, prevSnapshot,
                   createdFVGs, calledAt>>

NextPure ==
    \/ AnalyzeMarketStructure /\ UNCHANGED <<batchVars, notifyVars, clientVars, storeVars, scanVars, hookVars>>
    \/ CallAgain /\ UNCHANGED <<batchVars, notifyVars, clientVars, storeVars, scanVars, hookVars>>

SpecPure == Init /\ [][NextPure]_vars

\* C13: two invocations of analyzeMarketStructure on the same candles return
\* the same snapshot, whatever the wall-clock time of each invocation.
C13_SameSnapshot ==
    (pc = "done" /\ calls >= 2) => snapshot = prevSnapshot

(***************************************************************************)
(* Series for the fair-value-gap claims: two base candles, then up to      *)
(* MaxGapTokens tokens.  The steps between the price levels are below, on  *)
(* and above the minimum gap size of 0.2 % (gap 20 on a close of 10000).   *)
(* The series are analysed as 5- and as 15-minute candles.                 *)
(***************************************************************************)
MaxGapTokens == 4

Base == Shape(10000, 10010, 9990, 10000)
Level(low) == Shape(low + 4, low + 8, low, low + 4)

GapTokens == {"B", "U1", "U2", "U9", "S", "W"}

GapTokenCandles(t) ==
    CASE t = "B" -> <<Base>>
      [] t = "U1" -> <<Level(10020)>>
      [] t = "U2" -> <<Level(10030)>>
      [] t = "U9" -> <<Level(10150)>>
      [] t = "S" -> <<Level(10030), Level(10030), Level(10070), Level(10070),
                     Level(10110), Level(10110)>>
      [] t = "W" -> Run(Base, 11)

RECURSIVE ExpandGaps(_, _)
ExpandGaps(tokens, k) ==
    IF k > Len(tokens) THEN <<>>
    ELSE GapTokenCandles(tokens[k]) \o ExpandGaps(tokens, k + 1)

GapSeries(bar) ==
    { Stamp(Run(Base, 2) \o ExpandGaps(tokens, 1), bar) :
        tokens \in UNION { [1..n -> GapTokens] : n \in 1..MaxGapTokens } }

InitGaps ==
    /\ lookbackWindow = 2
    /\ barMinutes \in {5, 15}
    /\ candles \in GapSeries(barMinutes)
    /\ InitAnalyzer
    /\ BatchIdle
    /\ NotifyIdle
    /\ ClientsIdle
    /\ StoreIdle
    /\ ScanIdle
    /\ HookIdle

SpecGaps == InitGaps /\ [][Next]_vars

\* the FVGs pushed for candle index i
CreatedAt(i, dir) ==
    { g \in 1..Len(createdFVGs) :
        /\ createdFVGs[g].timestamp = i * barMinutes
        /\ createdFVGs[g].direction = dir }

\* C14: a bullish FVG is created at i >= 2 iff high[i-2] < low[i] and the gap
\* is at least minFVGSize percent of close[i-1], with bounds high[i-2] and
\* low[i]; the bearish case is symmetric; upperBound > lowerBound, and no
\* index creates both.
C14_GapCreation ==
    Analysed =>
        /\ \A i \in 2..(Len(candles) - 1) :
              LET c0 == At(candles, i)
                  c1 == At(candles, i - 1)
                  c2 == At(candles, i - 2)
              IN /\ (CreatedAt(i, "bullish") # {}) <=>
                        (/\ c2.high < c0.low
                         /\ (c0.low - c2.high) * 1000 >= minFVGSize * c1.close)
                 /\ \A g \in CreatedAt(i, "bullish") :
                        /\ createdFVGs[g].lowerBound = c2.high
                        /\ createdFVGs[g].upperBound = c0.low
                 /\ (CreatedAt(i, "bearish") # {}) <=>
                        (/\ c2.low > c0.high
                         /\ (c2.low - c0.high) * 1000 >= minFVGSize * c1.close)
                 /\ \A g \in CreatedAt(i, "bearish") :
                        /\ createdFVGs[g].lowerBound = c0.high
                        /\ createdFVGs[g].upperBound = c2.low
                 /\ Cardinality(CreatedAt(i, "bullish") \cup CreatedAt(i, "bearish")) <= 1
        /\ \A g \in 1..Len(createdFVGs) :
              /\ createdFVGs[g].upperBound > createdFVGs[g].lowerBound
              /\ createdFVGs[g].timestamp >= 2 * barMinutes

\* one series with a gap below the minimum size (none created), a gap of
\* exactly the minimum size (created) and a bearish gap
C14_Witness ==
    /\ Analysed
    /\ \E i \in 2..(Len(candles) - 1) :
          /\ At(candles, i - 2).high < At(candles, i).low
          /\ (At(candles, i).low - At(candles, i - 2).high) * 1000
                < 2 * At(candles, i - 1).close
          /\ CreatedAt(i, "bullish") = {}
    /\ \E i \in 2..(Len(candles) - 1) :
          /\ (At(candles, i).low - At(candles, i - 2).high) * 1000
                = 2 * At(candles, i - 1).close
          /\ CreatedAt(i, "bullish") # {}
    /\ \E i \in 2..(Len(candles) - 1) : CreatedAt(i, "bearish") # {}

\* the retained FVGs that are not mitigated
Unmitigated == { g \in 1..Len(fairValueGaps) : ~fairValueGaps[g].isMitigated }

\* C15: activeFVGs holds at most 5 FVGs, all unmitigated, newest first, and
\* they are the newest unmitigated FVGs the analyzer retained.
C15_ActiveFVGs ==
    Analysed =>
        LET active == snapshot[1].activeFVGs
        IN /\ Len(active) = Min(5, Cardinality(Unmitigated))
           /\ \A k \in 1..Len(active) :
                 /\ ~active[k].isMitigated
                 /\ \E g \in Unmitigated : fairValueGaps[g] = active[k]
           /\ \A k \in 1..(Len(active) - 1) :
                 active[k].timestamp >= active[k + 1].timestamp
           /\ \A g \in Unmitigated :
                 (\A k \in 1..Len(active) : active[k] # fairValueGaps[g]) =>
                    \A k \in 1..Len(active) :
                       active[k].timestamp >= fairValueGaps[g].timestamp

\* more than five unmitigated FVGs and a mitigated one are retained
C15_Witness ==
    /\ Analysed
    /\ Len(candles) >= lookbackWindow + 3
    /\ Cardinality(Unmitigated) > 5
    /\ Cardinality(Unmitigated) < Len(fairValueGaps)
    /\ Len(snapshot[1].activeFVGs) = 5

\* the FVG with this id is in the list the analyzer keeps
Retained(fvg) == \E k \in 1..Len(fairValueGaps) : fairValueGaps[k].id = fvg.id

\* C16: after detectFairValueGaps an FVG is retained iff its qualityScore is
\* at least 20 and its age is at most 50 bar intervals of the analysed
\* timeframe.
C16_RetainedIff ==
    Analysed =>
        \A g \in 1..Len(createdFVGs) :
            Retained(createdFVGs[g]) <=>
                /\ createdFVGs[g].qualityScore >= 20
                /\ calledAt - createdFVGs[g].timestamp <= 50 * barMinutes

\* C17: an FVG's nearStructureEvent flag is true iff the FVG was created
\* within 3 bars of some BOS/CHOCH event of the same analysis, whatever the
\* bar interval.
C17_NearWithinThreeBars ==
    Analysed =>
        \A g \in 1..Len(createdFVGs) :
            createdFVGs[g].nearStructureEvent <=>
                \E e \in 1..Len(bosChochEvents) :
                    Abs(createdFVGs[g].timestamp - bosChochEvents[e].timestamp)
                        <= 3 * barMinutes

(***************************************************************************)
(* WebSocket clients of the NotificationService.  A connection gets the    *)
(* id generateClientId returns (a random string: any value, one in use     *)
(* included) and the default settings; its message and close handlers keep *)
(* that id.  The messages are updateSettings messages that set one key.    *)
(***************************************************************************)
MaxSent == 2

NotificationTypes ==
    {"BOS_ENTRY", "BOS_BREAK", "FVG_MITIGATED", "TREND_CHANGE", "PRICE_ALERT"}

PatchKeys == {"bosEntry", "fvgMitigated"}
SettingsMessages == [key : PatchKeys, value : BOOLEAN]

\* { ...client.notifications, ...message.settings }
mergeSettings(settings, message) ==
    [settings EXCEPT ![message.key] = message.value]

shouldSendToClient(client, notification) ==
    LET settings == client.notifications
    IN CASE notification.type = "BOS_ENTRY" -> settings.bosEntry
         [] notification.type = "BOS_BREAK" -> settings.bosBreak
         [] notification.type = "FVG_MITIGATED" -> settings.fvgMitigated
         [] notification.type = "TREND_CHANGE" -> settings.trendChange
         [] notification.type = "PRICE_ALERT" -> settings.priceAlerts
         [] OTHER -> TRUE

\* broadcastNotification sends to socket s: an entry of the map holds s and
\* passes the filter (ws.send delivers on an open socket only)
SentTo(s, notification) ==
    \E clientId \in ClientIds :
        /\ clients[clientId] # <<>>
        /\ clients[clientId][1].ws = s
        /\ shouldSendToClient(clients[clientId][1], notification)
        /\ sockets[s].state = "open"

\* wss.on('connection')
Connection ==
    \E s \in Sockets, clientId \in ClientIds :
        /\ sockets[s].state = "new"
        /\ clients' = [clients EXCEPT ![clientId] =
                          <<[ws |-> s, notifications |-> DefaultSettings]>>]
        /\ sockets' = [sockets EXCEPT ![s] = [state |-> "open", clientId |-> clientId]]
        /\ own' = [own EXCEPT ![s] = DefaultSettings]
        /\ UNCHANGED <<received, lastBroadcast>>

\* ws.on('message') with an updateSettings message
HandleClientMessage ==
    \E s \in Sockets, message \in SettingsMessages :
        /\ sockets[s].state = "open"
        /\ LET clientId == sockets[s].clientId
           IN clients' =
                 IF clients[clientId] = <<>> THEN clients
                 ELSE [clients EXCEPT ![clientId] =
                          <<[ws |-> clients[clientId][1].ws,
                             notifications |->
                                 mergeSettings(clients[clientId][1].notifications,
                                               message)]>>]
        /\ own' = [own EXCEPT ![s] = mergeSettings(own[s], message)]
        /\ UNCHANGED <<sockets, received, lastBroadcast>>

\* ws.on('close')
Close ==
    \E s \in Sockets :
        /\ sockets[s].state = "open"
        /\ clients' = [clients EXCEPT ![sockets[s].clientId] = <<>>]
        /\ sockets' = [sockets EXCEPT ![s].state = "closed"]
        /\ UNCHANGED <<own, received, lastBroadcast>>

\* createNotification with clients connected: the retained list, then
\* broadcastNotification
CreateAndBroadcast ==
    /\ created < MaxSent
    /\ \E stockSymbol \in AlertSymbols, type \in NotificationTypes :
          LET n == Notification(created + 1, stockSymbol, type, "MEDIUM", clock)
          IN /\ notifications' = createNotification(notifications, n)
             /\ received' = [s \in Sockets |->
                                IF SentTo(s, n) THEN received[s] \cup {n.id}
                                ELSE received[s]]
             /\ lastBroadcast' =
                    [id |-> n.id, type |-> type,
                     connected |-> { s \in Sockets : sockets[s].state = "open" },
                     own |-> own]
    /\ created' = created + 1
    /\ UNCHANGED <<clock, lastCall, recentCall, clients, sockets, own>>

NextClients ==
    \/ Connection /\ UNCHANGED <<analyzerVars, batchVars, notifyVars, storeVars, scanVars, hookVars>>
    \/ HandleClientMessage /\ UNCHANGED <<analyzerVars, batchVars, notifyVars, storeVars, scanVars, hookVars>>
    \/ Close /\ UNCHANGED <<analyzerVars, batchVars, notifyVars, storeVars, scanVars, hookVars>>
    \/ CreateAndBroadcast /\ UNCHANGED <<analyzerVars, batchVars, storeVars, scanVars, hookVars>>

SpecClients == InitNotify /\ [][NextClients]_vars

\* C18: the latest notification was sent to a socket iff the socket was
\* connected when it was created and the settings that socket itself asked
\* for enable its type (BOS_ENTRY/bosEntry, BOS_BREAK/bosBreak,
\* FVG_MITIGATED/fvgMitigated, TREND_CHANGE/trendChange,
\* PRICE_ALERT/priceAlerts); other clients' messages and disconnected
\* sockets play no part.
C18_PerClientFiltering ==
    lastBroadcast.id # 0 =>
        \A s \in Sockets :
            (lastBroadcast.id \in received[s]) <=>
                /\ s \in lastBroadcast.connected
                /\ CASE lastBroadcast.type = "BOS_ENTRY" -> lastBroadcast.own[s].bosEntry
                     [] lastBroadcast.type = "BOS_BREAK" -> lastBroadcast.own[s].bosBreak
                     [] lastBroadcast.type = "FVG_MITIGATED" -> lastBroadcast.own[s].fvgMitigated
                     [] lastBroadcast.type = "TREND_CHANGE" -> lastBroadcast.own[s].trendChange
                     [] lastBroadcast.type = "PRICE_ALERT" -> lastBroadcast.own[s].priceAlerts

(***************************************************************************)
(* The signal store (MemStorage) under refreshWithRealData.  A scan's      *)
(* response holds a quote for some of the symbols asked for, or the fetch  *)
(* throws.  performSMCAnalysis derives the BOS level and the timeframes    *)
(* from the quote with random draws, so the distance (points) and the      *)
(* number of generated timeframes are inputs.  updateStockPrices suspends  *)
(* at the provider fetch, so several calls can be in flight; what follows  *)
(* the fetch runs without a further suspension of the store's code.        *)
(***************************************************************************)
MaxScans == 2

SymbolOrder == <<"NIFTY", "TCS">>
IndexSymbols == {"NIFTY", "BANKNIFTY", "SENSEX"}

signalDistance == 6
includeDistance == 15
analysisMinTimeframes == 2

QuoteDistances == {5, 10}
GeneratedTimeframes == 0..2

Quotes == [distance : QuoteDistances, generated : GeneratedTimeframes]

\* response of one fetch: per symbol no quote (<<>>) or a quote
Responses ==
    [ 1..Len(SymbolOrder) -> {<<>>} \cup { <<q>> : q \in Quotes } ]

performSMCAnalysis(quote) ==
    IF ~(quote.distance <= signalDistance)
    THEN [timeframes |-> 0, hasValidSignal |-> FALSE]
    ELSE [timeframes |-> quote.generated,
          hasValidSignal |-> quote.generated >= analysisMinTimeframes]

\* the InsertStock entries getAnalyzedStocks pushes for one quote
AnalyzedStock(symbol, quote, now) ==
    LET analysis == performSMCAnalysis(quote)
        isIndex == symbol \in IndexSymbols
        valid == \/ analysis.hasValidSignal
                 \/ (quote.distance <= includeDistance /\ analysis.timeframes >= 1)
    IN IF valid \/ isIndex
       THEN <<[symbol |-> symbol,
               distance |-> quote.distance,
               timeframes |-> IF isIndex /\ ~valid THEN 1 ELSE analysis.timeframes,
               lastScanned |-> now,
               isFavorite |-> FALSE]>>
       ELSE <<>>

RECURSIVE getAnalyzedStocks(_, _, _)
getAnalyzedStocks(response, k, now) ==
    IF k > Len(SymbolOrder) THEN <<>>
    ELSE (IF response[k] = <<>> THEN <<>>
          ELSE AnalyzedStock(SymbolOrder[k], response[k][1], now))
         \o getAnalyzedStocks(response, k + 1, now)

\* this.stocks after createStock for each entry, ids from firstId
createStocks(realStocks, firstId) ==
    [k \in 1..Len(realStocks) |->
        [id |-> firstId + k - 1,
         symbol |-> realStocks[k].symbol,
         distance |-> realStocks[k].distance,
         timeframes |-> realStocks[k].timeframes,
         lastScanned |-> realStocks[k].lastScanned,
         isFavorite |-> realStocks[k].isFavorite]]

updateInterval == 60          \* 60000 ms
WaitSteps == {30, 61}
MaxWait == 61
UserIds == {<<>>, <<1>>}      \* userId absent, or a user's id

\* Date.now() - this.lastUpdate.getTime() > this.updateInterval
shouldUpdateCache(now, last) == now - last > updateInterval

reloadStocksKeeping(old, realStocks) ==
    old \o createStocks(realStocks, Len(old) + 1)

reloadStocksCarrying(old, realStocks) ==
    [k \in 1..Len(realStocks) |->
        [createStocks(realStocks, 1)[k] EXCEPT !.isFavorite =
            \E j \in 1..Len(old) : /\ old[j].symbol = realStocks[k].symbol
                                    /\ old[j].isFavorite]]

\* this.stocks.clear(); this.currentStockId = 1; realStocks.forEach(createStock)
reloadStocks(old, realStocks) == createStocks(realStocks, 1)

afterFailureCleared(old) == <<>>

\* the catch block of refreshWithRealData
afterFailure(old) == old

\* updateStockPrices up to its suspension at the provider fetch
UpdateStockPrices ==
    /\ shouldUpdateCache(storeNow, lastUpdate) => scans + inFlight < MaxScans
    /\ lastRequest' = [made |-> TRUE,
                       fetched |-> shouldUpdateCache(storeNow, lastUpdate)]
    /\ inFlight' = IF shouldUpdateCache(storeNow, lastUpdate)
                   THEN inFlight + 1 ELSE inFlight
    /\ UNCHANGED <<stocks, currentStockId, scans, storeNow, lastUpdate,
                   lastRefresh, lastToggle>>

\* refreshWithRealData from the moment its fetch settles
RefreshWithRealData ==
    /\ inFlight > 0
    /\ inFlight' = inFlight - 1
    /\ scans' = scans + 1
    /\ \/ \* getAnalyzedStocks throws (no token, invalid response, network)
          /\ stocks' = afterFailure(stocks)
          /\ lastRefresh' = [lastRefresh EXCEPT !.outcome = "failed"]
          /\ UNCHANGED <<currentStockId, lastUpdate>>
       \/ \E response \in Responses :
             LET realStocks == getAnalyzedStocks(response, 1, storeNow)
             IN /\ stocks' = reloadStocks(stocks, realStocks)
                /\ currentStockId' = 1 + Len(realStocks)
                /\ lastUpdate' = storeNow
                /\ lastRefresh' =
                       [outcome |-> "ok", applied |-> realStocks,
                        hadFavorite |->
                            \E k \in 1..Len(stocks) : stocks[k].isFavorite,
                        succeeded |-> lastRefresh.succeeded + 1]
    /\ UNCHANGED <<storeNow, lastRequest, lastToggle>>

\* const isFavorite = false (placeholder) when a userId is given
toggleFavorite(stock, userId) ==
    IF userId # <<>>
    THEN [stock EXCEPT !.isFavorite = ~FALSE]
    ELSE [stock EXCEPT !.isFavorite = ~stock.isFavorite]

ToggleFavorite ==
    /\ \E stockId \in 1..Len(SymbolOrder), userId \in UserIds :
          /\ stocks' = IF stockId \in 1..Len(stocks)
                       THEN [stocks EXCEPT ![stockId] = toggleFavorite(stocks[stockId], userId)]
                       ELSE stocks
          /\ lastToggle' = [stockId |-> stockId, userId |-> userId,
                            found |-> stockId \in 1..Len(stocks),
                            before |-> IF stockId \in 1..Len(stocks)
                                       THEN stocks[stockId].isFavorite ELSE FALSE,
                            after |-> IF stockId \in 1..Len(stocks)
                                      THEN stocks'[stockId].isFavorite ELSE FALSE]
    /\ UNCHANGED <<currentStockId, scans, storeNow, lastUpdate, inFlight,
                   lastRequest, lastRefresh>>

Wait ==
    /\ \E d \in WaitSteps :
          /\ storeNow + d <= StartTime + MaxWait
          /\ storeNow' = storeNow + d
    /\ UNCHANGED <<stocks, currentStockId, scans, lastUpdate, inFlight,
                   lastRequest, lastRefresh, lastToggle>>

NextStore ==
    \/ UpdateStockPrices /\ UNCHANGED <<analyzerVars, batchVars, notifyVars, clientVars, scanVars, hookVars>>
    \/ RefreshWithRealData /\ UNCHANGED <<analyzerVars, batchVars, notifyVars, clientVars, scanVars, hookVars>>
    \/ ToggleFavorite /\ UNCHANGED <<analyzerVars, batchVars, notifyVars, clientVars, scanVars, hookVars>>
    \/ Wait /\ UNCHANGED <<analyzerVars, batchVars, notifyVars, clientVars, scanVars, hookVars>>

SpecStore == InitNotify /\ [][NextStore]_vars

\* C19: a symbol the store holds a record for still has a record after any
\* later scan/refresh.
C19_NeverRemoved ==
    [][\A k \in 1..Len(stocks) :
          \E j \in 1..Len(stocks') : stocks'[j].symbol = stocks[k].symbol]_vars

\* the results array of analyzeBatch run over the symbols whose analysis did
\* not fail, from position k of the batch on
RECURSIVE ResultsWithoutFailed(_, _)
ResultsWithoutFailed(results, k) ==
    IF k > Len(batchTrace) THEN results
    ELSE IF batchTrace[k].failed THEN ResultsWithoutFailed(results, k + 1)
    ELSE ResultsWithoutFailed(
             PushResult(results, analyzeStock(batchSymbols[k], batchTrace[k].analysisOf)),
             k + 1)

\* C20: the list analyzeBatch returns equals the list it returns for the
\* batch without the symbols whose analysis raised an error.
C20_ErrorIsolation ==
    batchPc = "returned" =>
        batchResults = SortResults(ResultsWithoutFailed(<<>>, 1))

\* the first symbol failed and the second one is in the returned list
C20_Witness ==
    /\ batchPc = "returned"
    /\ Len(batchSymbols) = 2
    /\ batchTrace[1].failed
    /\ ~batchTrace[2].failed
    /\ Len(batchResults) = 1
    /\ batchResults[1].symbol = batchSymbols[2]

(***************************************************************************)
(* One analyzer called on one series and then on another one, shorter or   *)
(* longer than lookbackWindow + 3.                                         *)
(***************************************************************************)
HandNewSeries ==
    /\ pc = "done"
    /\ calls < MaxCalls
    /\ candles' \in SwingSeries(barMinutes)
    /\ pc' = "ready"
    /\ UNCHANGED <<lookbackWindow, barMinutes, swingPoints, bosChochEvents,
                   fairValueGaps, prevSwingPoints, calls, snapshot, prevSnapshot,
                   createdFVGs, calledAt>>

InitCall ==
    /\ barMinutes = 5
    /\ lookbackWindow \in {2, 10}
    /\ candles \in SwingSeries(barMinutes)
    /\ InitAnalyzer
    /\ BatchIdle
    /\ NotifyIdle
    /\ ClientsIdle
    /\ StoreIdle
    /\ ScanIdle
    /\ HookIdle

NextCall ==
    \/ AnalyzeMarketStructure /\ UNCHANGED <<batchVars, notifyVars, clientVars, storeVars, scanVars, hookVars>>
    \/ HandNewSeries /\ UNCHANGED <<batchVars, notifyVars, clientVars, storeVars, scanVars, hookVars>>

SpecCall == InitCall /\ [][NextCall]_vars

\* C21: a call with fewer than lookbackWindow + 3 candles returns the neutral
\* default; a call with at least that many leaves in the tables the swing
\* points of the candles, the events found from those swing points and the
\* FVGs found with those events, whatever the tables held before.
C21_DefaultOrFreshDetection ==
    pc = "done" =>
        IF Len(candles) < lookbackWindow + 3
        THEN /\ snapshot[1].currentStructure = "Neutral"
             /\ snapshot[1].lastBOSCHOCH = NoEvent
             /\ snapshot[1].activeFVGs = <<>>
             /\ snapshot[1].recentSwingPoints = <<>>
             /\ snapshot[1].structureConfidence = 0
        ELSE /\ swingPoints = detectSwingPoints(candles, lookbackWindow)
             /\ bosChochEvents = detectBOSCHOCH(candles, swingPoints, lookbackWindow)
             /\ createdFVGs = checkFVGMitigation(candles, GapScan(candles, 2, bosChochEvents))
             /\ fairValueGaps = pruneFVGs(createdFVGs, calledAt)
             /\ snapshot[1] = MarketStructureAnalysis(candles, swingPoints,
                                                      bosChochEvents, fairValueGaps)

\* a call with exactly lookbackWindow + 3 candles that found a swing point,
\* after a call with too few candles
C21_Witness ==
    /\ pc = "done"
    /\ calls = 2
    /\ Len(candles) = lookbackWindow + 3
    /\ swingPoints # <<>>
    /\ prevSnapshot = <<getDefaultAnalysis>>

(***************************************************************************)
(* checkForAlerts between two scans: whether a timeframe emitted a CHOCH   *)
(* between the two snapshots is a fact of the scans; checkForAlerts gets   *)
(* the two stock snapshots only.                                           *)
(***************************************************************************)
ScanAndCheck ==
    /\ chochSince' \in BOOLEAN
    /\ CheckForAlerts

NextTrend ==
    \/ ScanAndCheck /\ UNCHANGED <<analyzerVars, batchVars, clientVars, storeVars, hookVars>>
    \/ Tick /\ UNCHANGED <<analyzerVars, batchVars, clientVars, storeVars, scanVars, hookVars>>

SpecTrend == InitNotify /\ [][NextTrend]_vars

\* C22: a call of checkForAlerts creates a TREND_CHANGE notification only
\* when the trend differs between the two snapshots and some timeframe
\* emitted a CHOCH since the previous snapshot.
C22_TrendChangeNeedsChoch ==
    \A k \in 1..Len(lastCall.made) :
        lastCall.made[k].type = "TREND_CHANGE" =>
            /\ lastCall.made[k].priority = "MEDIUM"
            /\ lastCall.previous[1].trend # lastCall.current[1].trend
            /\ chochSince

(***************************************************************************)
(* Claims on the store's refresh and on toggleFavorite (SpecStore).        *)
(***************************************************************************)

\* C23: when the provider fails during a refresh, the store keeps exactly
\* the records it had and the id counter is unchanged.
C23_FailureKeepsStore ==
    [][(scans' = scans + 1 /\ lastRefresh'.outcome = "failed")
          => (stocks' = stocks /\ currentStockId' = currentStockId)]_vars

\* a refresh has failed over a store that holds records
C23_Witness ==
    /\ lastRefresh.outcome = "failed"
    /\ lastRefresh.succeeded > 0
    /\ Len(stocks) > 0
    /\ currentStockId = 1 + Len(stocks)

\* C24: a forced rescan (updateStockPrices) always starts a fresh fetch,
\* whatever time has passed since the previous one.
C24_ForcedRescanFetches ==
    lastRequest.made => lastRequest.fetched

SymbolsDistinct(records) ==
    \A j, k \in 1..Len(records) : records[j].symbol = records[k].symbol => j = k

\* C27: right after a successful refresh the store holds exactly the stocks
\* of the new scan with ids 1..n in scan order, one record per symbol at most
\* and isFavorite false everywhere.
C27_RefreshReplacesStore ==
    [][(scans' = scans + 1 /\ lastRefresh'.outcome = "ok")
          => /\ Len(stocks') = Len(lastRefresh'.applied)
             /\ currentStockId' = 1 + Len(stocks')
             /\ SymbolsDistinct(stocks')
             /\ \A k \in 1..Len(stocks') :
                   /\ stocks'[k].id = k
                   /\ stocks'[k].symbol = lastRefresh'.applied[k].symbol
                   /\ stocks'[k].distance = lastRefresh'.applied[k].distance
                   /\ stocks'[k].timeframes = lastRefresh'.applied[k].timeframes
                   /\ stocks'[k].isFavorite = FALSE]_vars

\* a successful refresh over a store that held a favourite: the same symbol
\* is in the new scan and is no favourite any more
C27_Witness ==
    /\ lastRefresh.outcome = "ok"
    /\ lastRefresh.succeeded = 2
    /\ lastRefresh.hadFavorite
    /\ lastToggle.found
    /\ Len(stocks) >= lastToggle.stockId
    /\ \A k \in 1..Len(stocks) : ~stocks[k].isFavorite

WithoutFavorites(records) ==
    [k \in 1..Len(records) |-> [records[k] EXCEPT !.isFavorite = FALSE]]

\* C28: whatever the interleaving of concurrent updateStockPrices calls, the
\* store is the state before any refresh or the complete result of one
\* fetch (favourite flags aside): never emptied and not yet reloaded, never a
\* mix of two scans, never two records of one symbol.
C28_StoreIsOneScan ==
    /\ WithoutFavorites(stocks) = createStocks(lastRefresh.applied, 1)
    /\ (lastRefresh.succeeded = 0 => stocks = <<>>)
    /\ SymbolsDistinct(stocks)
    /\ currentStockId = 1 + Len(stocks)

\* two refreshes that overlapped (no time passed since construction, so the
\* second call started before the first one's fetch settled) have both
\* loaded their scan
C28_Witness ==
    /\ storeNow = StartTime
    /\ scans = 2
    /\ lastRefresh.succeeded = 2
    /\ Len(stocks) > 0

\* C29: toggleFavorite on a stored id flips isFavorite, with or without a
\* userId, so that two successive calls restore the flag; an unknown id
\* changes nothing.
C29_ToggleFlips ==
    lastToggle.found => lastToggle.after = ~lastToggle.before

(***************************************************************************)
(* SpecLong: analyzers with a base lookback above twice the maximal        *)
(* adaptive lookback.  The series has one spike at index 30 or 31, quiet   *)
(* candles up to index 61 or beyond, one candle that may close beyond the  *)
(* spike, and a quiet end.                                                 *)
(***************************************************************************)
LongLookbacks == {62, 64}

LongSeries(bar) ==
    { Stamp(Run(Flat, n1) \o <<s>> \o Run(Flat, n2) \o <<b>> \o Run(Flat, n3), bar) :
        n1 \in 30..31, s \in {SpikeHigh, SpikeLow}, n2 \in 30..31,
        b \in {Break(10050), Break(8450), Flat}, n3 \in 3..5 }

InitLong ==
    /\ barMinutes = 5
    /\ lookbackWindow \in LongLookbacks
    /\ candles \in LongSeries(barMinutes)
    /\ InitAnalyzer
    /\ BatchIdle
    /\ NotifyIdle
    /\ ClientsIdle
    /\ StoreIdle
    /\ ScanIdle
    /\ HookIdle

SpecLong == InitLong /\ [][Next]_vars

\* the candle at index i closes beyond the most recent swing level of the
\* kind by more than the BOS threshold
BreaksSwing(kind, i) ==
    /\ HasSwing(kind, i)
    /\ LET level == LastOf(RelevantSwings(swingPoints, kind, i)).price
       IN IF kind = "high"
          THEN ClosesAbove(At(candles, i).close, level, bosThreshold)
          ELSE ClosesBelow(At(candles, i).close, level, bosThreshold)

\* C25: structure detection examines every candle from the adaptive lookback
\* L used by swing detection on: when L is below the base lookback L0, a
\* close at an index in [L, L0) that breaks the most recent swing level by
\* more than the BOS threshold produces a BOS event.
C25_EarlyBreakGivesBOS ==
    Analysed =>
        \A i \in Max(DynamicLookback(candles, lookbackWindow), 1)..(lookbackWindow - 1) :
            /\ BreaksSwing("high", i) =>
                  \E k \in EventIds : CandleOf(k) = i /\ IsEvent(k, "BOS", "bullish")
            /\ BreaksSwing("low", i) =>
                  \E k \in EventIds : CandleOf(k) = i /\ IsEvent(k, "BOS", "bearish")

\* structure events the latest call emitted
EmittedEvents ==
    IF TooFewCandles(candles, lookbackWindow) THEN 0 ELSE Len(bosChochEvents)

\* C26: the structureConfidence the analyzer returns is 0 when the event
\* list is empty and at least 80 (at most 100) when an event exists; hence
\* hasValidSignal holds iff the analysis emitted an event, and no confidence
\* lies strictly between 50 and 80.
C26_ConfidenceZeroOrHigh ==
    (pc = "done" /\ snapshot # <<>>) =>
        LET analysis == snapshot[1]
        IN /\ EmittedEvents = 0 => analysis.structureConfidence = 0
           /\ EmittedEvents > 0 => /\ analysis.structureConfidence >= 80 * 60
                                   /\ analysis.structureConfidence <= 100 * 60
           /\ hasValidStructureSignal(analysis) <=> EmittedEvents > 0
           /\ ~(/\ analysis.structureConfidence > 50 * 60
                /\ analysis.structureConfidence < 80 * 60)

\* an analysis with events of both directions, the last of them alone in its
\* direction, and a confidence below the cap
C26_Witness ==
    /\ pc = "done"
    /\ snapshot # <<>>
    /\ Len(bosChochEvents) >= 2
    /\ \A k \in 1..(Len(bosChochEvents) - 1) :
          bosChochEvents[k].direction # bosChochEvents[Len(bosChochEvents)].direction
    /\ snapshot[1].structureConfidence < 100 * 60
    /\ hasValidStructureSignal(snapshot[1])

(***************************************************************************)
(* SpecHook: the useWebSocket hook of one component.  The server or the    *)
(* network may drop a socket at any time; close() puts a socket into       *)
(* CLOSING and its close event comes later.  A state setter called after   *)
(* the unmount has no effect.  The URL is well-formed, so the WebSocket    *)
(* constructor does not throw.                                             *)
(***************************************************************************)
reconnectDelay == 3           \* 3000 ms
MaxWebSockets == 3
MaxHookTime == 7

CurrentSocket == Len(webSockets)      \* wsRef.current

\* wsRef.current.onopen
OnOpen ==
    /\ \E k \in 1..Len(webSockets) :
          /\ webSockets[k].readyState = "connecting"
          /\ webSockets' = [webSockets EXCEPT ![k].readyState = "open"]
    /\ isConnected' = IF hookMounted THEN TRUE ELSE isConnected
    /\ UNCHANGED <<hookMounted, reconnectTimers, hookNow, openedUnmounted>>

\* wsRef.current.onclose: after a drop, a failed connect or close()
OnClose ==
    /\ Len(webSockets) + Cardinality(reconnectTimers) < MaxWebSockets
    /\ \E k \in 1..Len(webSockets) :
          /\ webSockets[k].readyState \in {"connecting", "open", "closing"}
          /\ webSockets' = [webSockets EXCEPT ![k].readyState = "closed",
                                              ![k].closedAt = hookNow,
                                              ![k].closedMounted = hookMounted]
          /\ reconnectTimers' = reconnectTimers \cup
                                   {[due |-> hookNow + reconnectDelay, cause |-> k]}
    /\ isConnected' = IF hookMounted THEN FALSE ELSE isConnected
    /\ UNCHANGED <<hookMounted, hookNow, openedUnmounted>>

\* a reconnect timer fires: connectWebSocket()
ConnectWebSocket ==
    /\ \E t \in reconnectTimers :
          /\ t.due <= hookNow
          /\ webSockets' = Append(webSockets, NewWebSocket(hookNow, t.cause))
          /\ reconnectTimers' = reconnectTimers \ {t}
    /\ openedUnmounted' = IF hookMounted THEN openedUnmounted ELSE openedUnmounted + 1
    /\ UNCHANGED <<hookMounted, isConnected, hookNow>>

\* the effect's cleanup: if (wsRef.current) wsRef.current.close()
Cleanup ==
    /\ hookMounted
    /\ hookMounted' = FALSE
    /\ webSockets' =
          IF webSockets[CurrentSocket].readyState \in {"connecting", "open"}
          THEN [webSockets EXCEPT ![CurrentSocket].readyState = "closing"]
          ELSE webSockets
    /\ UNCHANGED <<isConnected, reconnectTimers, hookNow, openedUnmounted>>

\* a second passes; a timer that is due fires first
TickHook ==
    /\ hookNow < MaxHookTime
    /\ \A t \in reconnectTimers : t.due > hookNow
    /\ hookNow' = hookNow + 1
    /\ UNCHANGED <<hookMounted, isConnected, webSockets, reconnectTimers, openedUnmounted>>

NextHook ==
    \/ OnOpen /\ UNCHANGED <<analyzerVars, batchVars, notifyVars, clientVars, storeVars, scanVars>>
    \/ OnClose /\ UNCHANGED <<analyzerVars, batchVars, notifyVars, clientVars, storeVars, scanVars>>
    \/ ConnectWebSocket /\ UNCHANGED <<analyzerVars, batchVars, notifyVars, clientVars, storeVars, scanVars>>
    \/ Cleanup /\ UNCHANGED <<analyzerVars, batchVars, notifyVars, clientVars, storeVars, scanVars>>
    \/ TickHook /\ UNCHANGED <<analyzerVars, batchVars, notifyVars, clientVars, storeVars, scanVars>>

SpecHook == InitNotify /\ [][NextHook]_vars

\* every connection that closed is followed, reconnectDelay seconds after its
\* close, by a new connection, and no connection is opened otherwise
ReopenedAfterDelay ==
    /\ \A k \in 1..Len(webSockets) :
          webSockets[k].readyState = "closed" =>
              \/ /\ hookNow <= webSockets[k].closedAt + reconnectDelay
                 /\ \E t \in reconnectTimers : t.cause = k
              \/ \E j \in 1..Len(webSockets) :
                    /\ webSockets[j].cause = k
                    /\ webSockets[j].createdAt = webSockets[k].closedAt + reconnectDelay
    /\ \A j \in 2..Len(webSockets) :
          /\ webSockets[j].cause \in 1..(j - 1)
          /\ webSockets[j].createdAt =
                webSockets[webSockets[j].cause].closedAt + reconnectDelay

\* C30: a closed connection is re-opened 3 seconds after it closes while the
\* hook is mounted, and once the hook's cleanup has run the hook opens no
\* new WebSocket.
C30_NoReconnectAfterCleanup ==
    /\ hookMounted => ReopenedAfterDelay
    /\ openedUnmounted = 0

====
